---- MODULE Spec2Model ----
(***************************************************************************)
(* Model of the issue indexer of modules/indexer/issues (indexer.go):      *)
(* the indexerHolder (an RWMutex, a sync.Cond on its read locker, the      *)
(* indexer slot and the cancelled flag), the goroutine of InitIssueIndexer *)
(* that creates the backend and calls holder.set / holder.cancel, the      *)
(* callers of holder.get() (SearchIssuesByKeyword, IsAvailable) and the    *)
(* queue handler registered by InitIssueIndexer.                           *)
(*                                                                         *)
(* Threads take one step at a time: every lock operation, the check of     *)
(* get(), the four parts of sync.Cond.Wait and every iteration of the      *)
(* handler's loop is a step, so that every interleaving the Go scheduler   *)
(* allows is a behaviour of the model.                                     *)
(***************************************************************************)
EXTENDS Integers, Sequences, FiniteSets, TLC

\* ------------------------------------------------------------------ bounds
NumReaders == 2        \* threads calling SearchIssuesByKeyword / IsAvailable
NumHandlers == 2       \* queue workers invoking the handler
MaxBatch == 3          \* longest batch the queue engine hands to the handler
MaxIssueID == 2        \* issue ids are 1..MaxIssueID
MaxCalls == 2          \* calls of UpdateIssueIndexer / DeleteRepoIssueIndexer
MaxTimeout == 1        \* StartupTimeout and GracefulHammerTime are 0..MaxTimeout ticks
MaxRepoID == 3         \* repository ids are 1..MaxRepoID
PageSize == 2          \* repo_model.RepositoryListDefaultPageSize
MaxPage == 3           \* the pages from MaxPage on, all empty, count as one
MaxConcBatch == 2      \* longest batch of two concurrent handler invocations
MaxComments == 3       \* most comments of an issue passed to UpdateIssueIndexer
MaxExtra == 2          \* documents beyond the limit of a search

\* --------------------------------------------------------------- constants
Nil == "nil"
Readers == {<<"reader", i>> : i \in 1..NumReaders}
Handlers == {<<"handler", i>> : i \in 1..NumHandlers}
Threads == Readers \cup Handlers

\* setting.Indexer.IssueType; "other" stands for every unknown type
IssueTypes == {"bleve", "elasticsearch", "db", "other"}

VARIABLES
    \* indexerHolder
    indexer,        \* h.indexer: Nil or the backend
    cancelled,      \* h.cancelled
    mutexW,         \* h.mutex, writer side: "free", "pending" or "held"
    mutexR,         \* h.mutex, reader side: the threads holding RLock
    condWait,       \* h.cond's notify list: threads added and not yet notified
    \* InitIssueIndexer and its goroutine
    issueType,      \* setting.Indexer.IssueType
    ipc,            \* position of the goroutine func() of line 170
    wop,            \* holder operation the goroutine is in: "set", "cancel"
    wcause,         \* which failure path called cancel
    populate,       \* the local populate
    initExist,      \* what the backend's Init() reported: "unknown", "exists", "new"
    exitCause,      \* "none", or the log.Fatal that ended the process
    \* threads calling holder.get()
    pc,             \* position of each thread
    atCall,         \* the holder as it was when the thread called get()
    waited,         \* whether this get() went through cond.Wait()
    got,            \* what get() returned
    ret,            \* what the calling function returned
    \* the queue handler (one invocation per handler thread)
    data,           \* the batch: data ...queue.Data
    pos,            \* index of the for loop of line 120
    iData,          \* positions (in data) of the records appended to iData
    unhandled,      \* positions (in data) of the records appended to unhandled
    calls,          \* backend calls made by this invocation, in order
    logs,           \* log.Error calls made by this invocation, in order
    residual,       \* positions (in data) of the records the handler returned
    \* the update queue and the backend behind the holder
    queue,          \* records pushed to issueIndexerQueue and not yet delivered
    index,          \* the backend's documents (followed only where index.on)
    ncalls,         \* calls of UpdateIssueIndexer / DeleteRepoIssueIndexer so far
    \* InitIssueIndexer itself, its startup watchdog and the graceful manager
    syncReindex,    \* the parameter syncReindex
    startupTimeout, \* setting.Indexer.StartupTimeout, in ticks
    hammerTime,     \* setting.GracefulHammerTime, in ticks
    isChild,        \* graceful.GetManager().IsChild()
    opc,            \* position of InitIssueIndexer after it started the goroutine
    wpc,            \* position of the watchdog goroutine of line 261
    elapsed,        \* ticks since the watchdog's time.After(timeout) was armed
    shutdown,       \* whether graceful.GetManager().IsShutdown() is closed
    populator,      \* populateIssueIndexer: "none", "inline", "spawned", "returned"
    terminated,     \* what the watchdog did with the queue before log.Fatal
    \* the hook that the goroutine registers to run at termination
    hook,           \* "none", "registered" or "ran"; "untracked" where the
                    \* graceful manager's termination is not followed
    closes,         \* calls of the backend's Close() so far
    \* populateIssueIndexer and the repositories of the database
    repos,          \* ids of the repositories that exist now
    lastID,         \* the highest repository id given out so far
    throughout,     \* the repositories that exist since the walk began
    ppc,            \* position of populateIssueIndexer; "idle" where not followed
    page,           \* the loop variable page
    todo,           \* what is left of the page's repos for the loop of line 307
    processed,      \* how often UpdateRepoIndexer was called for each repository
    pagesAfter,     \* pages fetched since the context was cancelled
    \* the queue consumer and the availability callback
    consumer,       \* whether issueIndexerQueue.Run was started: "no", "started";
                    \* "untracked" where the consumer's start is not followed
    callback,       \* "none" or "installed" (SetAvailabilityChangeCallback)
    notice,         \* the backend's last availability notification
    asked           \* what the queue was last asked: "Pause" or "Resume"

holderVars == <<indexer, cancelled, mutexW, mutexR, condWait>>
initVars == <<issueType, ipc, wop, wcause, populate, initExist, exitCause>>
getVars == <<pc, atCall, waited, got>>
handlerVars == <<data, pos, iData, unhandled, calls, logs, residual>>
queueVars == <<queue, index, ncalls>>
startVars == <<syncReindex, startupTimeout, hammerTime, isChild, opc, wpc, elapsed,
               shutdown, populator, terminated>>
termVars == <<hook, closes>>
popVars == <<repos, lastID, throughout, ppc, page, todo, processed, pagesAfter>>
cbVars == <<consumer, callback, notice, asked>>
envVars == <<queueVars, startVars, termVars, popVars, cbVars>>
vars == <<holderVars, initVars, getVars, ret, handlerVars, envVars>>

\* ------------------------------------------------------------ the holder

\* line 89: the condition under which get() calls h.cond.Wait()
NeedsWait_NoWait(ix, c) == ix = Nil /\ c
NeedsWait(ix, c) == ix = Nil /\ ~c

\* h.cond.Broadcast(): the waiters left on the notify list afterwards
Broadcast_Signal(ws) == IF ws = {} THEN {} ELSE ws \ {CHOOSE t \in ws : TRUE}
Broadcast(ws) == {}

\* the process is alive until a log.Fatal (os.Exit) ends it
Running == exitCause = "none"

NoHolderCall == [indexer |-> Nil, cancelled |-> FALSE]
\* what a backend answered to Search: an error or not, and the hits
NoAnswer == [err |-> FALSE, hits |-> <<>>]
\* what SearchIssuesByKeyword or IsAvailable returned, whether it called the
\* backend (asked), and what the backend's Search (res) or Ping (ping) answered
NoRet ==
    [fn |-> "none", err |-> FALSE, ids |-> <<>>, avail |-> FALSE,
     asked |-> FALSE, res |-> NoAnswer, ping |-> FALSE]

\* log.Fatal: the message is logged and os.Exit ends the process, and with it
\* every thread, whatever it was doing
ExitProcess(cause) ==
    /\ exitCause' = cause
    /\ pc' = [t \in Threads |-> "killed"]
    /\ atCall' = [t \in Threads |-> NoHolderCall]
    /\ waited' = [t \in Threads |-> FALSE]
    /\ got' = [t \in Threads |-> Nil]
    /\ ret' = [t \in Threads |-> NoRet]
    /\ data' = [t \in Handlers |-> <<>>]
    /\ pos' = [t \in Handlers |-> 0]
    /\ iData' = [t \in Handlers |-> <<>>]
    /\ unhandled' = [t \in Handlers |-> <<>>]
    /\ calls' = [t \in Handlers |-> <<>>]
    /\ logs' = [t \in Handlers |-> <<>>]
    /\ residual' = [t \in Handlers |-> <<>>]

threadVars == <<getVars, ret, handlerVars>>

\* a thread calls holder.get() (lines 112, 386, 404)
CallGet(t) ==
    /\ pc[t] = "idle"
    /\ pc' = [pc EXCEPT ![t] = "get_rlock"]
    /\ atCall' = [atCall EXCEPT ![t] = [indexer |-> indexer, cancelled |-> cancelled]]
    /\ waited' = [waited EXCEPT ![t] = FALSE]
    /\ UNCHANGED got

\* line 87: h.mutex.RLock(); a reader waits while a writer holds or awaits the lock
GetRLock(t) ==
    /\ Running
    /\ pc[t] = "get_rlock"
    /\ mutexW = "free"
    /\ mutexR' = mutexR \cup {t}
    /\ pc' = [pc EXCEPT ![t] = "get_check"]
    /\ UNCHANGED <<indexer, cancelled, mutexW, condWait, initVars,
                   atCall, waited, got, ret, handlerVars, envVars>>

\* line 89: if h.indexer == nil && !h.cancelled
GetCheck(t) ==
    /\ Running
    /\ pc[t] = "get_check"
    /\ pc' = [pc EXCEPT ![t] = IF NeedsWait(indexer, cancelled)
                               THEN "wait_add" ELSE "get_return"]
    /\ UNCHANGED <<holderVars, initVars, atCall, waited, got, ret,
                   handlerVars, envVars>>

\* line 90, h.cond.Wait(), first part: the thread joins the notify list
WaitAdd(t) ==
    /\ Running
    /\ pc[t] = "wait_add"
    /\ condWait' = condWait \cup {t}
    /\ waited' = [waited EXCEPT ![t] = TRUE]
    /\ pc' = [pc EXCEPT ![t] = "wait_unlock"]
    /\ UNCHANGED <<indexer, cancelled, mutexW, mutexR, initVars, atCall, got,
                   ret, handlerVars, envVars>>

\* line 90, h.cond.Wait(), second part: c.L.Unlock(), the read lock is released
WaitUnlock(t) ==
    /\ Running
    /\ pc[t] = "wait_unlock"
    /\ mutexR' = mutexR \ {t}
    /\ pc' = [pc EXCEPT ![t] = "wait_park"]
    /\ UNCHANGED <<indexer, cancelled, mutexW, condWait, initVars,
                   atCall, waited, got, ret, handlerVars, envVars>>

\* line 90, h.cond.Wait(), third part: the thread sleeps until it is notified
WaitPark(t) ==
    /\ Running
    /\ pc[t] = "wait_park"
    /\ t \notin condWait
    /\ pc' = [pc EXCEPT ![t] = "wait_relock"]
    /\ UNCHANGED <<holderVars, initVars, atCall, waited, got, ret,
                   handlerVars, envVars>>

\* line 90, h.cond.Wait(), last part: c.L.Lock(), the read lock is taken again
WaitRelock(t) ==
    /\ Running
    /\ pc[t] = "wait_relock"
    /\ mutexW = "free"
    /\ mutexR' = mutexR \cup {t}
    /\ pc' = [pc EXCEPT ![t] = "get_return"]
    /\ UNCHANGED <<indexer, cancelled, mutexW, condWait, initVars,
                   atCall, waited, got, ret, handlerVars, envVars>>

\* lines 88 and 92: return h.indexer, then the deferred h.mutex.RUnlock()
GetReturn(t) ==
    /\ Running
    /\ pc[t] = "get_return"
    /\ got' = [got EXCEPT ![t] = indexer]
    /\ mutexR' = mutexR \ {t}
    /\ pc' = [pc EXCEPT ![t] = "got"]
    /\ UNCHANGED <<indexer, cancelled, mutexW, condWait, initVars,
                   atCall, waited, ret, handlerVars, envVars>>

\* lines 86-93: one step of holder.get()
get(t) ==
    \/ GetRLock(t)
    \/ GetCheck(t)
    \/ WaitAdd(t)
    \/ WaitUnlock(t)
    \/ WaitPark(t)
    \/ WaitRelock(t)
    \/ GetReturn(t)

\* the goroutine enters holder.set or holder.cancel
CallHolder(o, cause) ==
    /\ ipc' = "lock"
    /\ wop' = o
    /\ wcause' = cause

\* lines 73 and 80: h.mutex.Lock() announces the writer; new readers now wait
WLock ==
    /\ Running
    /\ ipc = "lock"
    /\ mutexW = "free"
    /\ mutexW' = "pending"
    /\ ipc' = "acquire"
    /\ UNCHANGED <<indexer, cancelled, mutexR, condWait, issueType, wop, wcause,
                   populate, initExist, exitCause, threadVars, envVars>>

\* lines 73 and 80: h.mutex.Lock() returns once the active readers have left
WAcquire ==
    /\ Running
    /\ ipc = "acquire"
    /\ mutexR = {}
    /\ mutexW' = "held"
    /\ ipc' = "body"
    /\ UNCHANGED <<indexer, cancelled, mutexR, condWait, issueType, wop, wcause,
                   populate, initExist, exitCause, threadVars, envVars>>

\* lines 82-83: h.indexer = indexer; h.cond.Broadcast()
SetBody ==
    /\ Running
    /\ ipc = "body"
    /\ wop = "set"
    /\ indexer' = issueType
    /\ condWait' = Broadcast(condWait)
    /\ ipc' = "unlock"
    /\ UNCHANGED <<cancelled, mutexW, mutexR, issueType, wop, wcause, populate, initExist,
                   exitCause, threadVars, envVars>>

\* lines 75-76: h.cancelled = true; h.cond.Broadcast()
CancelBody ==
    /\ Running
    /\ ipc = "body"
    /\ wop = "cancel"
    /\ cancelled' = TRUE
    /\ condWait' = Broadcast(condWait)
    /\ ipc' = "unlock"
    /\ UNCHANGED <<indexer, mutexW, mutexR, issueType, wop, wcause, populate, initExist,
                   exitCause, threadVars, envVars>>

\* where the goroutine goes on after the call: set returns into the
\* goroutine (lines 194, 217, 222), cancel to the log.Fatal that follows it
\* (lines 181, 190, 209, 213, 225)
AfterUnlock_GoesOn(op) == "hook"
AfterUnlock(op) == IF op = "set" THEN "hook" ELSE "fatal"

\* lines 74 and 81: the deferred h.mutex.Unlock()
WUnlock ==
    /\ Running
    /\ ipc = "unlock"
    /\ mutexW' = "free"
    /\ ipc' = AfterUnlock(wop)
    /\ wop' = "none"
    /\ UNCHANGED <<indexer, cancelled, mutexR, condWait, issueType, wcause,
                   populate, initExist, exitCause, threadVars, envVars>>

\* ------------------------------------- the goroutine of InitIssueIndexer

\* what the goroutine leaves alone when it is not inside set or cancel
InitFrame == UNCHANGED <<holderVars, issueType, threadVars, envVars>>

\* lines 175-176, 204, 219-221, 223-224: switch setting.Indexer.IssueType
InitStart ==
    /\ Running
    /\ ipc = "start"
    /\ CASE issueType = "bleve" ->
              ipc' = "bleve_init" /\ UNCHANGED <<wop, wcause>>
         [] issueType = "elasticsearch" ->
              ipc' = "es_new" /\ UNCHANGED <<wop, wcause>>
         [] issueType = "db" -> CallHolder("set", "none")
         [] OTHER -> CallHolder("cancel", "unknown_type")
    /\ UNCHANGED <<populate, initExist, exitCause>>
    /\ InitFrame

\* lines 187, 211: the first result of issueIndexer.Init()
Reported(exist) == IF exist THEN "exists" ELSE "new"

\* lines 192, 215: populate = !exist
PopulateFlag_Always(exist) == TRUE
PopulateFlag(exist) == ~exist

\* lines 186-193: NewBleveIndexer, issueIndexer.Init(), then cancel or set
BleveInit ==
    /\ Running
    /\ ipc = "bleve_init"
    /\ \E err \in BOOLEAN, exist \in BOOLEAN :
          IF err
          THEN CallHolder("cancel", "bleve_init") /\ UNCHANGED <<populate, initExist>>
          ELSE /\ CallHolder("set", "none")
               /\ populate' = PopulateFlag(exist)
               /\ initExist' = Reported(exist)
    /\ UNCHANGED exitCause
    /\ InitFrame

\* the statements of the bleve case that run with the deferred recover of
\* lines 177-185 pending: Init itself and everything after holder.set
PanicPoints == {"bleve_init", "hook", "callback", "run_queue", "populate"}

\* a panic in the bleve case unwinds the goroutine into the deferred function
\* (the local populate and the result of Init are not read again)
BlevePanic ==
    /\ Running
    /\ issueType = "bleve"
    /\ ipc \in PanicPoints
    /\ ipc' = "recover"
    /\ populate' = FALSE
    /\ initExist' = "unknown"
    /\ UNCHANGED <<wop, wcause, exitCause>>
    /\ InitFrame

\* lines 178-182: recover(), three log.Error, holder.cancel()
BleveRecover ==
    /\ Running
    /\ ipc = "recover"
    /\ CallHolder("cancel", "bleve_panic")
    /\ UNCHANGED <<populate, initExist, exitCause>>
    /\ InitFrame

\* lines 207-210: NewElasticSearchIndexer; on error log.Fatal
EsNew ==
    /\ Running
    /\ ipc = "es_new"
    /\ \E err \in BOOLEAN :
          IF err
          THEN ExitProcess("es_new") /\ UNCHANGED ipc
          ELSE ipc' = "es_init" /\ UNCHANGED <<exitCause, threadVars>>
    /\ UNCHANGED <<holderVars, issueType, wop, wcause, populate, initExist,
                   envVars>>

\* lines 211-216: issueIndexer.Init(); on error log.Fatal, else holder.set
EsInit ==
    /\ Running
    /\ ipc = "es_init"
    /\ \E err \in BOOLEAN, exist \in BOOLEAN :
          IF err
          THEN ExitProcess("es_init") /\ UNCHANGED <<ipc, wop, wcause, populate, initExist>>
          ELSE /\ CallHolder("set", "none")
               /\ populate' = PopulateFlag(exist)
               /\ initExist' = Reported(exist)
               /\ UNCHANGED <<exitCause, threadVars>>
    /\ UNCHANGED <<holderVars, issueType, envVars>>

\* lines 183, 190, 225: the log.Fatal after holder.cancel() ends the process
Fatal ==
    /\ Running
    /\ ipc = "fatal"
    /\ ExitProcess(wcause)
    /\ UNCHANGED <<holderVars, issueType, ipc, wop, wcause, populate, initExist,
                   envVars>>

\* lines 194-202, 217, 222: the hook that runs at termination is registered
RegisterHook ==
    /\ Running
    /\ ipc = "hook"
    /\ ipc' = "callback"
    /\ hook' = IF hook = "untracked" THEN hook ELSE "registered"
    /\ UNCHANGED <<wop, wcause, populate, initExist, exitCause, closes>>
    /\ UNCHANGED <<holderVars, issueType, threadVars, queueVars, startVars,
                   popVars, cbVars>>

\* lines 228-238: if the queue is Pausable, holder.get() and
\* SetAvailabilityChangeCallback(...).  The goroutine is the only writer and
\* has left set, so its get() takes the read lock, passes the check of line 89
\* and returns in one step; were the check to fail it would wait here.
InstallCallback ==
    /\ Running
    /\ ipc = "callback"
    /\ \E pausable \in BOOLEAN :
          /\ pausable => (mutexW = "free" /\ ~NeedsWait(indexer, cancelled))
          /\ callback' = IF pausable /\ callback # "untracked"
                         THEN "installed" ELSE callback
    /\ ipc' = "run_queue"
    /\ UNCHANGED <<wop, wcause, populate, initExist, exitCause>>
    /\ UNCHANGED <<consumer, notice, asked>>
    /\ UNCHANGED <<holderVars, issueType, threadVars, queueVars, startVars,
                   termVars, popVars>>

\* lines 229-236: the callback asks the queue to pause when the backend is
\* not available and to resume when it is
Callback_Inverted(available) == IF available THEN "Pause" ELSE "Resume"
Callback(available) == IF ~available THEN "Pause" ELSE "Resume"

\* the backend notifies a change of its availability: it calls the callback
\* it was given
Notify(available) ==
    /\ Running
    /\ callback = "installed"
    /\ notice' = IF available THEN "available" ELSE "unavailable"
    /\ asked' = Callback(available)
    /\ UNCHANGED <<consumer, callback>>
    /\ UNCHANGED <<holderVars, initVars, threadVars, queueVars, startVars,
                   termVars, popVars>>

\* line 241: go graceful.GetManager().RunWithShutdownFns(issueIndexerQueue.Run)
RunQueue ==
    /\ Running
    /\ ipc = "run_queue"
    /\ ipc' = "populate"
    /\ consumer' = IF consumer = "untracked" THEN consumer ELSE "started"
    /\ UNCHANGED <<wop, wcause, populate, initExist, exitCause>>
    /\ UNCHANGED <<callback, notice, asked>>
    /\ UNCHANGED <<holderVars, issueType, threadVars, queueVars, startVars,
                   termVars, popVars>>

\* lines 244-250: if populate, populateIssueIndexer is run, in this goroutine
\* when syncReindex and in a goroutine of its own otherwise
Populate ==
    /\ Running
    /\ ipc = "populate"
    /\ ipc' = "signal"
    /\ populator' = IF ~populate THEN populator
                    ELSE IF syncReindex THEN "inline" ELSE "spawned"
    /\ UNCHANGED <<wop, wcause, populate, initExist, exitCause>>
    /\ UNCHANGED <<holderVars, issueType, threadVars, queueVars, termVars,
                   popVars, cbVars>>
    /\ UNCHANGED <<syncReindex, startupTimeout, hammerTime, isChild, opc, wpc,
                   elapsed, shutdown, terminated>>

\* line 246 is a call: the goroutine goes on when populateIssueIndexer returned
InlineRunReturned_Always(p) == TRUE
InlineRunReturned(p) == p # "inline"

\* A select that is blocked is taken by the first of its channels to become
\* ready: the sender (or closer, or timer) hands the case to the receiver.
HandOver(at, case) == IF at = "select" THEN case ELSE at

\* lines 251-252: waitChannel <- time.Since(start); close(waitChannel).  The
\* channel has room for the value, so the send never waits; a select blocked
\* on the channel (line 256 or 267) is taken by this case.
Signal ==
    /\ Running
    /\ ipc = "signal"
    /\ InlineRunReturned(populator)
    /\ ipc' = "done"
    /\ opc' = HandOver(opc, "case_signal")
    /\ wpc' = HandOver(wpc, "case_signal")
    /\ UNCHANGED <<wop, wcause, populate, initExist, exitCause>>
    /\ UNCHANGED <<holderVars, issueType, threadVars, queueVars, termVars,
                   popVars, cbVars>>
    /\ UNCHANGED <<syncReindex, startupTimeout, hammerTime, isChild, elapsed,
                   shutdown, populator, terminated>>

\* the steps of the goroutine that the scheduler must eventually take
InitProgress ==
    \/ InitStart
    \/ BleveInit
    \/ BleveRecover
    \/ EsNew
    \/ EsInit
    \/ WLock
    \/ WAcquire
    \/ SetBody
    \/ CancelBody
    \/ WUnlock
    \/ RegisterHook
    \/ InstallCallback
    \/ RunQueue
    \/ Populate
    \/ Signal

\* lines 170-253: one step of the goroutine
InitGoroutine ==
    \/ InitProgress
    \/ BlevePanic
    \/ Fatal

\* ------------------- InitIssueIndexer after line 253, and the watchdog

\* populateIssueIndexer returns: it went through every repository, or its
\* context was cancelled
PopulatorReturn ==
    /\ Running
    /\ populator \in {"inline", "spawned"}
    /\ populator' = "returned"
    /\ UNCHANGED <<holderVars, initVars, threadVars, queueVars, termVars,
                   popVars, cbVars>>
    /\ UNCHANGED <<syncReindex, startupTimeout, hammerTime, isChild, opc, wpc,
                   elapsed, shutdown, terminated>>

\* the graceful manager begins the shutdown: IsShutdown() is closed, and a
\* select blocked on it (line 257 or 269) is taken by this case
Shutdown ==
    /\ Running
    /\ ~shutdown
    /\ shutdown' = TRUE
    /\ opc' = HandOver(opc, "case_shutdown")
    /\ wpc' = HandOver(wpc, "case_shutdown")
    /\ UNCHANGED <<holderVars, initVars, threadVars, queueVars, termVars,
                   popVars, cbVars>>
    /\ UNCHANGED <<syncReindex, startupTimeout, hammerTime, isChild, elapsed,
                   populator, terminated>>

\* lines 194-201, 217, 222: what the registered hook does with the backend.
\* Only the hook of the bleve case calls Close(), on what holder.get() returns;
\* the elasticsearch and db cases register finished alone.
HookCloses(type, ix) == type = "bleve" /\ ix # Nil

\* the graceful manager, terminating after the shutdown, runs the registered
\* hook, once.  The holder was written before the hook was registered, so the
\* hook's holder.get() takes the read lock and returns without waiting.
RunAtTerminate ==
    /\ Running
    /\ shutdown
    /\ hook = "registered"
    /\ mutexW = "free" /\ ~NeedsWait(indexer, cancelled)
    /\ hook' = "ran"
    /\ closes' = IF HookCloses(issueType, indexer) THEN closes + 1 ELSE closes
    /\ UNCHANGED <<holderVars, initVars, threadVars, queueVars, startVars,
                   popVars, cbVars>>

\* the cases of a select on waitChannel and IsShutdown() that are ready when
\* the select is entered; Go takes any one of them
ReadyCases ==
    {c \in {"case_signal", "case_shutdown"} :
        \/ c = "case_signal" /\ ipc = "done"
        \/ c = "case_shutdown" /\ shutdown}

\* what a goroutine entering such a select does: a ready case, else it blocks
EnterSelect == IF ReadyCases = {} THEN {"select"} ELSE ReadyCases

\* lines 255-260, 279: the branch on syncReindex and StartupTimeout; the
\* select of line 256 is entered, or the watchdog goroutine is started
OuterBranch ==
    /\ Running
    /\ opc = "branch"
    /\ IF syncReindex
       THEN /\ opc' \in EnterSelect
            /\ UNCHANGED wpc
       ELSE /\ opc' = "returned"
            /\ wpc' = IF startupTimeout > 0 THEN "start" ELSE wpc
    /\ UNCHANGED <<holderVars, initVars, threadVars, queueVars, termVars,
                   popVars, cbVars>>
    /\ UNCHANGED <<syncReindex, startupTimeout, hammerTime, isChild, elapsed,
                   shutdown, populator, terminated>>

\* lines 256-259, 280: the select is over and InitIssueIndexer returns
OuterReturn ==
    /\ Running
    /\ opc \in {"case_signal", "case_shutdown"}
    /\ opc' = "returned"
    /\ UNCHANGED <<holderVars, initVars, threadVars, queueVars, termVars,
                   popVars, cbVars>>
    /\ UNCHANGED <<syncReindex, startupTimeout, hammerTime, isChild, wpc, elapsed,
                   shutdown, populator, terminated>>

\* lines 263-266: the timeout of the watchdog, in ticks
Timeout_NoHammer == startupTimeout
Timeout ==
    IF isChild /\ hammerTime > 0 THEN startupTimeout + hammerTime
    ELSE startupTimeout

\* lines 262-272: the watchdog computes its timeout and enters its select,
\* which arms time.After(timeout)
WatchdogSelect ==
    /\ Running
    /\ wpc = "start"
    /\ wpc' \in EnterSelect
    /\ elapsed' = 0
    /\ UNCHANGED <<holderVars, initVars, threadVars, queueVars, termVars,
                   popVars, cbVars>>
    /\ UNCHANGED <<syncReindex, startupTimeout, hammerTime, isChild, opc,
                   shutdown, populator, terminated>>

\* a tick of time passes while the watchdog is blocked in its select
Tick ==
    /\ Running
    /\ wpc = "select"
    /\ elapsed < Timeout
    /\ elapsed' = elapsed + 1
    /\ UNCHANGED <<holderVars, initVars, threadVars, queueVars, termVars,
                   popVars, cbVars>>
    /\ UNCHANGED <<syncReindex, startupTimeout, hammerTime, isChild, opc, wpc,
                   shutdown, populator, terminated>>

\* line 271: the timer of time.After(timeout) fires and takes the blocked select
TimerFire ==
    /\ Running
    /\ wpc = "select"
    /\ elapsed = Timeout
    /\ wpc' = "case_timeout"
    /\ UNCHANGED <<holderVars, initVars, threadVars, queueVars, termVars,
                   popVars, cbVars>>
    /\ UNCHANGED <<syncReindex, startupTimeout, hammerTime, isChild, opc, elapsed,
                   shutdown, populator, terminated>>

\* lines 267-270: log.Info or log.Warn, and the watchdog ends
WatchdogLog ==
    /\ Running
    /\ wpc \in {"case_signal", "case_shutdown"}
    /\ wpc' = "done"
    /\ UNCHANGED <<holderVars, initVars, threadVars, queueVars, termVars,
                   popVars, cbVars>>
    /\ UNCHANGED <<syncReindex, startupTimeout, hammerTime, isChild, opc, elapsed,
                   shutdown, populator, terminated>>

\* lines 272-274: Terminate() if the queue is Shutdownable
WatchdogTerminate ==
    /\ Running
    /\ wpc = "case_timeout"
    /\ wpc' = "fatal"
    /\ \E shutdownable \in BOOLEAN :
          terminated' = IF shutdownable THEN "terminated" ELSE "not_shutdownable"
    /\ UNCHANGED <<holderVars, initVars, threadVars, queueVars, termVars,
                   popVars, cbVars>>
    /\ UNCHANGED <<syncReindex, startupTimeout, hammerTime, isChild, opc, elapsed,
                   shutdown, populator>>

\* line 275: log.Fatal("Issue Indexer Initialization timed-out after: %v")
WatchdogFatal ==
    /\ Running
    /\ wpc = "fatal"
    /\ ExitProcess("timeout")
    /\ UNCHANGED <<holderVars, issueType, ipc, wop, wcause, populate, initExist,
                   envVars>>

\* lines 255-280: one step of InitIssueIndexer after it started the goroutine
Outer ==
    \/ OuterBranch
    \/ OuterReturn

\* lines 261-278: one step of the watchdog, or of its timer
Watchdog ==
    \/ WatchdogSelect
    \/ Tick
    \/ TimerFire
    \/ WatchdogLog
    \/ WatchdogTerminate
    \/ WatchdogFatal

\* ------------------------------------- SearchIssuesByKeyword, IsAvailable

\* lines 37-40: a Match of a SearchResult
Match(id, score) == [ID |-> id, Score |-> score]

\* what indexer.Search can answer: an error, with whatever result came with
\* it, or its hits in the backend's order
BackendSearchResults ==
    {[err |-> TRUE, hits |-> <<Match(2, 1)>>],
     [err |-> FALSE, hits |-> <<Match(2, 2), Match(1, 1)>>]}

\* lines 396-398: the ID of every hit, appended in the order of res.Hits
HitIDs_Reversed(hits) == [k \in DOMAIN hits |-> hits[Len(hits) + 1 - k].ID]
HitIDs(hits) == [k \in DOMAIN hits |-> hits[k].ID]

\* lines 392-399: nil and the error when Search failed, else the ids of the hits
SearchReturn_PartialOnError(res) == [err |-> res.err, ids |-> HitIDs(res.hits)]
SearchReturn(res) ==
    IF res.err THEN [err |-> TRUE, ids |-> <<>>]
    ELSE [err |-> FALSE, ids |-> HitIDs(res.hits)]

ReaderFrame == UNCHANGED <<holderVars, initVars, handlerVars, envVars>>

\* lines 386 and 404: indexer := holder.get().  Neither function does anything
\* before this call, so which of the two the reader is in shows only in what
\* it does with the indexer it gets.
ReaderCall(r) ==
    /\ Running
    /\ CallGet(r)
    /\ UNCHANGED ret
    /\ ReaderFrame

\* lines 388-399: nil indexer is an error; else the ids of indexer.Search's hits
SearchFinish(r) ==
    /\ Running
    /\ pc[r] = "got"
    /\ IF got[r] = Nil
       THEN ret' = [ret EXCEPT ![r] =
                       [NoRet EXCEPT !.fn = "SearchIssuesByKeyword", !.err = TRUE]]
       ELSE \E res \in BackendSearchResults :
               ret' = [ret EXCEPT ![r] =
                          [NoRet EXCEPT !.fn = "SearchIssuesByKeyword",
                                        !.asked = TRUE,
                                        !.res = res,
                                        !.err = SearchReturn(res).err,
                                        !.ids = SearchReturn(res).ids]]
    /\ pc' = [pc EXCEPT ![r] = "returned"]
    /\ atCall' = [atCall EXCEPT ![r] = NoHolderCall]
    /\ waited' = [waited EXCEPT ![r] = FALSE]
    /\ UNCHANGED got
    /\ ReaderFrame

\* lines 405-410: nil indexer is false; else indexer.Ping()
IsAvailableFinish(r) ==
    /\ Running
    /\ pc[r] = "got"
    /\ IF got[r] = Nil
       THEN ret' = [ret EXCEPT ![r] = [NoRet EXCEPT !.fn = "IsAvailable"]]
       ELSE \E alive \in BOOLEAN :
               ret' = [ret EXCEPT ![r] =
                          [NoRet EXCEPT !.fn = "IsAvailable", !.asked = TRUE,
                                        !.ping = alive, !.avail = alive]]
    /\ pc' = [pc EXCEPT ![r] = "returned"]
    /\ atCall' = [atCall EXCEPT ![r] = NoHolderCall]
    /\ waited' = [waited EXCEPT ![r] = FALSE]
    /\ UNCHANGED got
    /\ ReaderFrame

\* the caller has its result; the thread is free for another call
ReaderDone(r) ==
    /\ Running
    /\ pc[r] = "returned"
    /\ pc' = [pc EXCEPT ![r] = "idle"]
    /\ got' = [got EXCEPT ![r] = Nil]
    /\ ret' = [ret EXCEPT ![r] = NoRet]
    /\ UNCHANGED <<atCall, waited>>
    /\ ReaderFrame

\* the steps of a reader once it has made its call
ReaderProgress(r) ==
    \/ get(r)
    \/ SearchFinish(r)
    \/ IsAvailableFinish(r)
    \/ ReaderDone(r)

\* ------------------------------------------------------ the queue handler

IssueIDs == 1..MaxIssueID
RepoIDs == 1..MaxRepoID

\* the repository of each issue: two issues to a repository
RepoOf(i) == (i + 1) \div 2

\* the issues of the database, each with one discussion comment and one
\* comment of another type (a close event)
Issues ==
    {[ID |-> i, RepoID |-> RepoOf(i), Title |-> "title", Content |-> "content",
      Comments |-> <<[Type |-> "comment", Content |-> "said"],
                     [Type |-> "close", Content |-> ""]>>] : i \in IssueIDs}

\* what GetIssueIDsByRepoID can return for a repository
RepoIssueIDs == {<<>>, <<1>>, [k \in IssueIDs |-> k]}

\* lines 26-34: the zero value of IndexerData
NoData ==
    [ID |-> 0, RepoID |-> 0, Title |-> "", Content |-> "", Comments |-> <<>>,
     IsDelete |-> FALSE, IDs |-> <<>>]

\* lines 341-346: the contents of the comments of type CommentTypeComment
DiscussComments_All(cs) == [k \in DOMAIN cs |-> cs[k].Content]
DiscussComments(cs) ==
    LET IsComment(c) == c.Type = "comment"
        kept == SelectSeq(cs, IsComment)
    IN [k \in DOMAIN kept |-> kept[k].Content]

\* lines 347-353: the record UpdateIssueIndexer builds
UpsertData(issue) ==
    [NoData EXCEPT !.ID = issue.ID, !.RepoID = issue.RepoID,
                   !.Title = issue.Title, !.Content = issue.Content,
                   !.Comments = DiscussComments(issue.Comments)]

\* lines 373-376: the record DeleteRepoIssueIndexer builds
DeleteData_WithID(ids) == [NoData EXCEPT !.ID = ids[1], !.IDs = ids, !.IsDelete = TRUE]
DeleteData(ids) == [NoData EXCEPT !.IDs = ids, !.IsDelete = TRUE]

\* IndexerData (lines 26-34): the records the producers can build
Upserts == {UpsertData(issue) : issue \in Issues}
Deletes == {DeleteData(ids) : ids \in RepoIssueIDs \ {<<>>}}
Records == Upserts \cup Deletes
Batches == UNION {[1..n -> Records] : n \in 1..MaxBatch}

\* the records of a batch are pointers: the handler's slices hold the same
\* pointers, which the model names by their position in data
Positions(d) == [i \in 1..Len(d) |-> i]

\* lines 109-110, 160, 166: the handler is registered for these types only;
\* every other type gets the DummyQueue
HandlerRegistered_Always == TRUE
HandlerRegistered == issueType \in {"bleve", "elasticsearch"}

\* line 115: return data
NilResidual_Drop(d) == <<>>
NilResidual(d) == Positions(d)

\* lines 130-134: after a failed Delete the record is kept only if Ping fails
DeleteRequeued_IfAlive(alive) == alive
DeleteRequeued(alive) == ~alive

\* lines 140-144: the upserts follow the unhandled deletes in the residual
ShortCircuit_DeletesOnly(unh, idata) == unh
ShortCircuit(unh, idata) == unh \o idata

\* lines 148-155: after a failed Index, nil if Ping succeeds, else all of iData
IndexFailResidual_Swapped(alive, idata) == IF alive THEN idata ELSE <<>>
IndexFailResidual(alive, idata) == IF alive THEN <<>> ELSE idata

Call(o, at, arg, ok) == [op |-> o, at |-> at, arg |-> arg, ok |-> ok]

\* The backend's documents: docs[i] is the record indexed under id i, NoData
\* when there is none; ok tells whether every call so far succeeded.  Where
\* index.on is FALSE the backend's content is not followed.
NoIndex == [on |-> FALSE, docs |-> <<>>, ok |-> TRUE]
EmptyIndex == [on |-> TRUE, docs |-> [i \in IssueIDs |-> NoData], ok |-> TRUE]

\* a call that returned an error changed no document
BackendFailed(ix) == IF ~ix.on THEN ix ELSE [ix EXCEPT !.ok = FALSE]

\* Indexer.Index (line 54): upserts the records, a later one replacing an
\* earlier one of the same id
BackendIndex_Merge(ix, recs) ==
    IF ~ix.on THEN ix
    ELSE [ix EXCEPT !.docs =
             [i \in DOMAIN ix.docs |->
                 LET at == {k \in DOMAIN recs : recs[k].ID = i}
                     rec == recs[CHOOSE k \in at : \A j \in at : j <= k]
                 IN IF at = {} THEN ix.docs[i]
                    ELSE [rec EXCEPT !.Comments = ix.docs[i].Comments \o @]]]
BackendIndex(ix, recs) ==
    IF ~ix.on THEN ix
    ELSE [ix EXCEPT !.docs =
             [i \in IssueIDs |->
                 LET at == {k \in DOMAIN recs : recs[k].ID = i}
                 IN IF at = {} THEN ix.docs[i]
                    ELSE recs[CHOOSE k \in at : \A j \in at : j <= k]]]

\* Indexer.Delete (line 55): removes the documents of these ids
BackendDelete(ix, ids) ==
    IF ~ix.on THEN ix
    ELSE [ix EXCEPT !.docs =
             [i \in IssueIDs |->
                 IF \E k \in DOMAIN ids : ids[k] = i THEN NoData ELSE ix.docs[i]]]

WorkerFrame ==
    UNCHANGED <<holderVars, initVars, ret, startVars, termVars, popVars, cbVars, ncalls, queue>>

\* the queue engine invokes the handler with a batch; line 112: holder.get().
\* The engine is outside this package: it may invoke the registered handler at
\* any time after CreateQueue (line 160), before or after line 241.
HandlerInvoke(h) ==
    /\ Running
    /\ HandlerRegistered
    /\ CallGet(h)
    /\ \E batch \in Batches : data' = [data EXCEPT ![h] = batch]
    /\ UNCHANGED <<pos, iData, unhandled, calls, logs, residual, index>>
    /\ WorkerFrame

\* lines 118-119: iData and unhandled are made anew by every invocation; an
\* invocation keeps them under its own thread
Locals_Shared(h) == <<"handler", 1>>
Locals(h) == h

\* lines 113-119: without an indexer the batch is returned; else the loop starts
HandlerGot(h) ==
    /\ Running
    /\ pc[h] = "got"
    /\ IF got[h] = Nil
       THEN /\ logs' = [logs EXCEPT ![h] = Append(@, "unable to get indexer")]
            /\ residual' = [residual EXCEPT ![h] = NilResidual(data[h])]
            /\ pc' = [pc EXCEPT ![h] = "returned"]
            /\ UNCHANGED pos
       ELSE /\ pos' = [pos EXCEPT ![h] = 1]
            /\ pc' = [pc EXCEPT ![h] = "loop"]
            /\ UNCHANGED <<logs, residual>>
    /\ atCall' = [atCall EXCEPT ![h] = NoHolderCall]
    /\ waited' = [waited EXCEPT ![h] = FALSE]
    /\ UNCHANGED <<got, data, iData, unhandled, calls, index>>
    /\ WorkerFrame

\* lines 120-139: one iteration of the loop over data.  The queue decodes
\* every datum with the exemplar &IndexerData{} of line 160, so the cast of
\* line 121 succeeds for every record of a batch.
HandlerLoop(h) ==
    /\ Running
    /\ pc[h] = "loop"
    /\ pos[h] <= Len(data[h])
    /\ LET i == pos[h]
           d == data[h][i]
       IN IF d.IsDelete
          THEN /\ UNCHANGED iData
               /\ \/ /\ calls' = [calls EXCEPT ![h] =
                                       Append(@, Call("Delete", i, d.IDs, TRUE))]
                     /\ index' = BackendDelete(index, d.IDs)
                     /\ UNCHANGED <<logs, unhandled>>
                  \/ \E alive \in BOOLEAN :
                        /\ calls' = [calls EXCEPT ![h] =
                                        @ \o <<Call("Delete", i, d.IDs, FALSE),
                                               Call("Ping", i, <<>>, alive)>>]
                        /\ index' = BackendFailed(index)
                        /\ logs' = [logs EXCEPT ![h] = Append(@, "deleting")]
                        /\ unhandled' = [unhandled EXCEPT ![Locals(h)] =
                                            IF DeleteRequeued(alive)
                                            THEN Append(@, i) ELSE @]
          ELSE /\ iData' = [iData EXCEPT ![Locals(h)] = Append(@, i)]
               /\ UNCHANGED <<calls, logs, unhandled, index>>
    /\ pos' = [pos EXCEPT ![h] = @ + 1]
    /\ UNCHANGED <<getVars, data, residual>>
    /\ WorkerFrame

\* line 140: if len(unhandled) > 0
ShortCircuits_Never(unh) == FALSE
ShortCircuits(unh) == Len(unh) > 0

\* lines 140-157: after the loop, the short circuit or the one Index call
HandlerAfterLoop(h) ==
    /\ Running
    /\ pc[h] = "loop"
    /\ pos[h] > Len(data[h])
    /\ IF ShortCircuits(unhandled[Locals(h)])
       THEN /\ residual' = [residual EXCEPT ![h] =
                               ShortCircuit(unhandled[Locals(h)], iData[Locals(h)])]
            /\ UNCHANGED <<calls, logs, index>>
       ELSE \/ /\ calls' = [calls EXCEPT ![h] =
                                Append(@, Call("Index", 0, iData[Locals(h)], TRUE))]
               /\ index' = BackendIndex(index, [k \in DOMAIN iData[Locals(h)] |->
                                                    data[h][iData[Locals(h)][k]]])
               /\ residual' = [residual EXCEPT ![h] = <<>>]
               /\ UNCHANGED logs
            \/ \E alive \in BOOLEAN :
                  /\ calls' = [calls EXCEPT ![h] =
                                  @ \o <<Call("Index", 0, iData[Locals(h)], FALSE),
                                         Call("Ping", 0, <<>>, alive)>>]
                  /\ index' = BackendFailed(index)
                  /\ logs' = [logs EXCEPT ![h] = Append(@, "indexing")]
                  /\ residual' = [residual EXCEPT ![h] =
                                     IndexFailResidual(alive, iData[Locals(h)])]
    /\ pc' = [pc EXCEPT ![h] = "returned"]
    /\ UNCHANGED <<atCall, waited, got, data, pos, iData, unhandled>>
    /\ WorkerFrame

\* the handler has returned its residual; the worker is free for another batch
HandlerDone(h) ==
    /\ Running
    /\ pc[h] = "returned"
    /\ pc' = [pc EXCEPT ![h] = "idle"]
    /\ got' = [got EXCEPT ![h] = Nil]
    /\ data' = [data EXCEPT ![h] = <<>>]
    /\ pos' = [pos EXCEPT ![h] = 0]
    /\ iData' = [iData EXCEPT ![h] = <<>>]
    /\ unhandled' = [unhandled EXCEPT ![h] = <<>>]
    /\ calls' = [calls EXCEPT ![h] = <<>>]
    /\ logs' = [logs EXCEPT ![h] = <<>>]
    /\ residual' = [residual EXCEPT ![h] = <<>>]
    /\ UNCHANGED <<atCall, waited, index>>
    /\ WorkerFrame

\* lines 111-158: one step of a handler invocation
handler(h) ==
    \/ get(h)
    \/ HandlerGot(h)
    \/ HandlerLoop(h)
    \/ HandlerAfterLoop(h)
    \/ HandlerDone(h)

\* ----------------------------------- the producers and the queue engine

\* neither producer calls holder.get() or reads the holder: it runs whenever
\* the process does
ProducerMayRun_WhenReady == Running /\ indexer # Nil
ProducerMayRun == Running

\* lines 347-355: UpdateIssueIndexer calls Push once, with the issue's record
UpdatePushes(issue) == <<UpsertData(issue)>>

\* lines 364-377: DeleteRepoIssueIndexer returns before Push on an error and
\* on an empty list of ids, else calls Push once with one record of all ids
DeletePushes_Always(err, ids) == <<DeleteData(ids)>>
DeletePushes(err, ids) == IF err \/ Len(ids) = 0 THEN <<>> ELSE <<DeleteData(ids)>>

\* lines 355-357 and 377-379: issueIndexerQueue.Push; the queue engine takes
\* the record or answers an error, which is logged
Push_Front(q, recs, ok) == IF ok THEN recs \o q ELSE q
Push(q, recs, ok) == IF ok THEN q \o recs ELSE q

ProducerFrame ==
    UNCHANGED <<holderVars, initVars, threadVars, startVars, termVars, popVars, cbVars,
                index>>

\* lines 340-358, for an issue and an answer of Push
UpdateIssueIndexer(issue, ok) ==
    /\ ProducerMayRun
    /\ ncalls < MaxCalls
    /\ queue' = Push(queue, UpdatePushes(issue), ok)
    /\ ncalls' = ncalls + 1
    /\ ProducerFrame

\* lines 362-380, for an answer of GetIssueIDsByRepoID (an error, or the
\* repository's issue ids) and an answer of Push
DeleteRepoIssueIndexer(err, ids, ok) ==
    /\ ProducerMayRun
    /\ ncalls < MaxCalls
    /\ queue' = Push(queue, DeletePushes(err, ids), ok)
    /\ ncalls' = ncalls + 1
    /\ ProducerFrame

\* The queue engine hands the worker the oldest records of the queue, at
\* most MaxBatch of them, and the handler starts (line 112: holder.get()).
QueueDeliver(h) ==
    /\ Running
    /\ HandlerRegistered
    /\ queue # <<>>
    /\ CallGet(h)
    /\ \E n \in 1..MaxBatch :
          /\ n <= Len(queue)
          /\ data' = [data EXCEPT ![h] = SubSeq(queue, 1, n)]
          /\ queue' = SubSeq(queue, n + 1, Len(queue))
    /\ UNCHANGED <<pos, iData, unhandled, calls, logs, residual, index>>
    /\ UNCHANGED <<holderVars, initVars, ret, startVars, termVars, popVars, cbVars, ncalls>>

\* The handler has returned; the queue engine puts the records of the
\* residual back on the queue for redelivery.
QueueReturn(h) ==
    /\ Running
    /\ pc[h] = "returned"
    /\ queue' = queue \o [k \in DOMAIN residual[h] |-> data[h][residual[h][k]]]
    /\ pc' = [pc EXCEPT ![h] = "idle"]
    /\ got' = [got EXCEPT ![h] = Nil]
    /\ data' = [data EXCEPT ![h] = <<>>]
    /\ pos' = [pos EXCEPT ![h] = 0]
    /\ iData' = [iData EXCEPT ![h] = <<>>]
    /\ unhandled' = [unhandled EXCEPT ![h] = <<>>]
    /\ calls' = [calls EXCEPT ![h] = <<>>]
    /\ logs' = [logs EXCEPT ![h] = <<>>]
    /\ residual' = [residual EXCEPT ![h] = <<>>]
    /\ UNCHANGED <<atCall, waited, index>>
    /\ UNCHANGED <<holderVars, initVars, ret, startVars, termVars, popVars, cbVars, ncalls>>

\* --------------------------------- populateIssueIndexer, UpdateRepoIndexer

\* the elements of a set of numbers, in ascending order
RECURSIVE Ascending(_)
Ascending(S) ==
    IF S = {} THEN <<>>
    ELSE LET m == CHOOSE x \in S : \A y \in S : x <= y
         IN <<m>> \o Ascending(S \ {m})

\* lines 292-297: SearchRepositoryByName with OrderBy: db.SearchOrderByID and
\* ListOptions{Page, PageSize}: the page-th run of PageSize repositories, in
\* the order of their ids, of those that exist when the query is made
PageOf(rs, p) ==
    LET all == Ascending(rs)
        skip == (p - 1) * PageSize
    IN [k \in 1..(IF Len(all) - skip < PageSize THEN Len(all) - skip ELSE PageSize)
           |-> all[skip + k]]

\* lines 322-326: issues_model.Issues for a repository: its issues, open and
\* closed, issues and pull requests
RepoIssueList(r) ==
    LET ids == Ascending({i \in IssueIDs : RepoOf(i) = r})
    IN [k \in DOMAIN ids |-> CHOOSE issue \in Issues : issue.ID = ids[k]]

\* lines 320-338: the issues UpdateRepoIndexer calls UpdateIssueIndexer for,
\* in order: none if Issues or LoadDiscussComments returned an error
UpdateRepoCalls_IgnoreErrors(r, errIssues, errComments) == RepoIssueList(r)
UpdateRepoCalls(r, errIssues, errComments) ==
    IF errIssues \/ errComments THEN <<>> ELSE RepoIssueList(r)

\* what these calls of UpdateIssueIndexer add to the queue, oks[k] telling
\* whether the Push of the k-th call succeeded
RepoPushes(issues, oks) ==
    LET kept == SelectSeq([k \in DOMAIN issues |-> k], LAMBDA k : oks[k])
    IN [j \in DOMAIN kept |-> UpdatePushes(issues[kept[j]])[1]]

\* lines 286-291, 307-313: select { case <-ctx.Done(): return; default: }.
\* The context of RunWithShutdownContext is cancelled when the shutdown begins.
CtxDone_Never == FALSE
CtxDone == shutdown

PopFrame ==
    UNCHANGED <<holderVars, initVars, threadVars, termVars, cbVars, index, syncReindex,
                startupTimeout, hammerTime, isChild, opc, wpc, elapsed, shutdown,
                terminated>>

\* lines 245-248, 283-285: populateIssueIndexer begins, with page := 1
PopStart ==
    /\ Running
    /\ ppc = "start"
    /\ populator \in {"inline", "spawned"}
    /\ ppc' = "check_page"
    /\ page' = 1
    /\ throughout' = repos
    /\ UNCHANGED <<repos, lastID, todo, processed, pagesAfter, queue, ncalls,
                   populator>>
    /\ PopFrame

\* lines 286-291: the check of the context at the top of the page loop
PopCheckPage ==
    /\ Running
    /\ ppc = "check_page"
    /\ IF CtxDone
       THEN ppc' = "stopped" /\ populator' = "returned"
       ELSE ppc' = "fetch" /\ UNCHANGED populator
    /\ UNCHANGED <<repos, lastID, throughout, page, todo, processed, pagesAfter,
                   queue, ncalls>>
    /\ PopFrame

\* line 286: page++, the pages from MaxPage on being beyond every repository
\* (MaxPage > MaxRepoID \div PageSize + 1) and so all alike
PagePlusPlus(p) == IF p < MaxPage THEN p + 1 ELSE p

\* lines 292-305: the page is queried; on an error the loop continues, with
\* the next page; an empty page ends the population
PopFetch ==
    /\ Running
    /\ ppc = "fetch"
    /\ pagesAfter' = IF CtxDone THEN pagesAfter + 1 ELSE pagesAfter
    /\ \E err \in BOOLEAN :
          IF err
          THEN /\ page' = PagePlusPlus(page)
               /\ ppc' = "check_page"
               /\ UNCHANGED <<todo, populator>>
          ELSE IF PageOf(repos, page) = <<>>
               THEN /\ ppc' = "complete"
                    /\ populator' = "returned"
                    /\ UNCHANGED <<page, todo>>
               ELSE /\ ppc' = "check_repo"
                    /\ todo' = PageOf(repos, page)
                    /\ UNCHANGED <<page, populator>>
    /\ UNCHANGED <<repos, lastID, throughout, processed, queue, ncalls>>
    /\ PopFrame

\* lines 307-313: the check of the context before each repository of the page
PopCheckRepo ==
    /\ Running
    /\ ppc = "check_repo"
    /\ IF CtxDone
       THEN ppc' = "stopped" /\ populator' = "returned"
       ELSE ppc' = "update_repo" /\ UNCHANGED populator
    /\ UNCHANGED <<repos, lastID, throughout, page, todo, processed, pagesAfter,
                   queue, ncalls>>
    /\ PopFrame

\* lines 314, 320-338: UpdateRepoIndexer(ctx, repo) for an answer of Issues,
\* of LoadDiscussComments and of each Push; then the next repository of the
\* page or, after the last one, page++
UpdateRepoIndexer(errIssues, errComments, oks) ==
    LET repo == Head(todo)
        issues == UpdateRepoCalls(repo, errIssues, errComments)
    IN /\ Running
       /\ ppc = "update_repo"
       /\ processed' = [processed EXCEPT ![repo] = @ + 1]
       /\ queue' = queue \o RepoPushes(issues, oks)
       /\ ncalls' = ncalls + Len(issues)
       /\ todo' = Tail(todo)
       /\ IF Tail(todo) = <<>>
          THEN page' = PagePlusPlus(page) /\ ppc' = "check_page"
          ELSE ppc' = "check_repo" /\ UNCHANGED page
       /\ UNCHANGED <<repos, lastID, throughout, pagesAfter, populator>>
       /\ PopFrame

\* The walk is in progress and about to query a page.  The walk reads the
\* repository table only in the query of line 292, so a change of the table
\* between two queries is followed as a change right before the second one.
Walking == ppc = "fetch"

\* a repository is created while the walk is in progress: it gets the next id
RepoCreate ==
    /\ Running
    /\ Walking
    /\ lastID < MaxRepoID
    /\ lastID' = lastID + 1
    /\ repos' = repos \cup {lastID + 1}
    /\ UNCHANGED <<throughout, ppc, page, todo, processed, pagesAfter, queue,
                   ncalls, populator>>
    /\ PopFrame

\* a repository is deleted while the walk is in progress
RepoDelete(r) ==
    /\ Running
    /\ Walking
    /\ r \in repos
    /\ repos' = repos \ {r}
    /\ throughout' = throughout \ {r}
    /\ UNCHANGED <<lastID, ppc, page, todo, processed, pagesAfter, queue, ncalls,
                   populator>>
    /\ PopFrame

\* lines 283-338: one step of the populator
Populator ==
    \/ PopStart
    \/ PopCheckPage
    \/ PopFetch
    \/ PopCheckRepo
    \/ \E errIssues, errComments \in BOOLEAN, oks \in [IssueIDs -> BOOLEAN] :
          UpdateRepoIndexer(errIssues, errComments, oks)

\* --------------------------------------------------------- specification

\* where populateIssueIndexer is not followed step by step
NoPopulator ==
    /\ ppc = "idle"
    /\ repos = {}
    /\ lastID = 0
    /\ throughout = {}
    /\ page = 0
    /\ todo = <<>>
    /\ processed = [r \in RepoIDs |-> 0]
    /\ pagesAfter = 0


\* the state InitIssueIndexer is in once it has created the queue (lines
\* 104-167) and started the goroutine of line 170, whatever it was called with
GoroutineStarts ==
    /\ indexer = Nil
    /\ cancelled = FALSE
    /\ mutexW = "free"
    /\ mutexR = {}
    /\ condWait = {}
    /\ issueType \in IssueTypes
    /\ ipc = "start"
    /\ wop = "none"
    /\ wcause = "none"
    /\ populate = FALSE
    /\ initExist = "unknown"
    /\ exitCause = "none"
    /\ populator = "none"

\* nothing else has happened yet: no call of get(), no record pushed, no
\* shutdown, and InitIssueIndexer has just started the goroutine
OthersIdle ==
    /\ pc = [t \in Threads |-> "idle"]
    /\ atCall = [t \in Threads |-> NoHolderCall]
    /\ waited = [t \in Threads |-> FALSE]
    /\ got = [t \in Threads |-> Nil]
    /\ ret = [t \in Threads |-> NoRet]
    /\ data = [t \in Handlers |-> <<>>]
    /\ pos = [t \in Handlers |-> 0]
    /\ iData = [t \in Handlers |-> <<>>]
    /\ unhandled = [t \in Handlers |-> <<>>]
    /\ calls = [t \in Handlers |-> <<>>]
    /\ logs = [t \in Handlers |-> <<>>]
    /\ residual = [t \in Handlers |-> <<>>]
    /\ queue = <<>>
    /\ ncalls = 0
    /\ opc = "branch"
    /\ wpc = "none"
    /\ elapsed = 0
    /\ shutdown = FALSE
    /\ terminated = "no"
    /\ closes = 0

\* the consumer's start and the availability callback are not followed
NoConsumer ==
    /\ consumer = "untracked"
    /\ callback = "untracked"
    /\ notice = "none"
    /\ asked = "none"

Boot == GoroutineStarts /\ OthersIdle

\* the state of the holder and of the goroutine of an InitIssueIndexer(false)
\* with IssueType bleve that found no index: the holder is set, the populator
\* is started in its own goroutine (line 248) and completion is signalled
GoroutineDone ==
    /\ indexer = "bleve"
    /\ cancelled = FALSE
    /\ mutexW = "free"
    /\ mutexR = {}
    /\ condWait = {}
    /\ issueType = "bleve"
    /\ ipc = "done"
    /\ wop = "none"
    /\ wcause = "none"
    /\ populate = TRUE
    /\ initExist = "new"
    /\ exitCause = "none"
    /\ populator = "spawned"

\* InitIssueIndexer(false) without a startup timeout, as the tests of the
\* holder and of the handler need it; the backend's content is not followed
Init ==
    /\ Boot
    /\ syncReindex = FALSE
    /\ startupTimeout = 0
    /\ hammerTime = 0
    /\ isChild = FALSE
    /\ index = NoIndex
    /\ hook = "untracked"
    /\ NoConsumer
    /\ NoPopulator

\* the holder, the goroutine of InitIssueIndexer and the callers of
\* SearchIssuesByKeyword and IsAvailable
Next ==
    \/ InitGoroutine
    \/ \E r \in Readers : ReaderCall(r)
    \/ \E r \in Readers : ReaderProgress(r)

Spec == Init /\ [][Next]_vars

\* The Go scheduler runs every runnable goroutine: a reader inside a call and
\* the goroutine of InitIssueIndexer keep taking steps.  Nothing forces a
\* panic, and nothing is assumed about when log.Fatal ends the process.
FairSpec ==
    /\ Spec
    /\ WF_vars(InitProgress)
    /\ \A r \in Readers : WF_vars(ReaderProgress(r))

\* the worker whose handler invocations HandlerSpec follows
Worker == <<"handler", 1>>

\* the holder, the goroutine of InitIssueIndexer and one queue worker that
\* invokes the handler, batch after batch
HandlerNext ==
    \/ InitGoroutine
    \/ HandlerInvoke(Worker)
    \/ handler(Worker)

HandlerSpec == Init /\ [][HandlerNext]_vars

\* as Init, with an empty backend whose content is followed
QueueInit ==
    /\ Boot
    /\ syncReindex = FALSE
    /\ startupTimeout = 0
    /\ hammerTime = 0
    /\ isChild = FALSE
    /\ index = EmptyIndex
    /\ hook = "untracked"
    /\ NoConsumer
    /\ NoPopulator

\* the holder, the goroutine of InitIssueIndexer, the producers, and the queue
\* engine delivering what they pushed to one worker's handler
QueueNext ==
    \/ InitGoroutine
    \/ \E issue \in Issues, ok \in BOOLEAN : UpdateIssueIndexer(issue, ok)
    \/ \E err \in BOOLEAN, ids \in RepoIssueIDs, ok \in BOOLEAN :
          DeleteRepoIssueIndexer(err, ids, ok)
    \/ QueueDeliver(Worker)
    \/ get(Worker)
    \/ HandlerGot(Worker)
    \/ HandlerLoop(Worker)
    \/ HandlerAfterLoop(Worker)
    \/ QueueReturn(Worker)

QueueSpec == QueueInit /\ [][QueueNext]_vars

\* as Init, for every way of calling InitIssueIndexer and every setting of the
\* startup timeout
StartInit ==
    /\ Boot
    /\ syncReindex \in BOOLEAN
    /\ startupTimeout \in 0..MaxTimeout
    /\ hammerTime \in 0..MaxTimeout
    /\ isChild \in BOOLEAN
    /\ index = NoIndex
    /\ hook = "none"
    /\ NoConsumer
    /\ NoPopulator

\* the holder, the goroutine of InitIssueIndexer, InitIssueIndexer itself, its
\* watchdog, the populator it started and the graceful manager
StartNext ==
    \/ InitGoroutine
    \/ Outer
    \/ Watchdog
    \/ PopulatorReturn
    \/ Shutdown
    \/ RunAtTerminate

StartSpec == StartInit /\ [][StartNext]_vars

\* the start of a populator run: the goroutine of InitIssueIndexer is done,
\* populateIssueIndexer is about to begin, and the repository table holds any
\* number of repositories
PopulatorInit ==
    /\ GoroutineDone
    /\ OthersIdle
    /\ syncReindex = FALSE
    /\ startupTimeout = 0
    /\ hammerTime = 0
    /\ isChild = FALSE
    /\ index = EmptyIndex
    /\ hook = "untracked"
    /\ NoConsumer
    /\ ppc = "start"
    /\ lastID \in 0..MaxRepoID
    /\ repos = 1..lastID
    /\ throughout = {}
    /\ page = 0
    /\ todo = <<>>
    /\ processed = [r \in RepoIDs |-> 0]
    /\ pagesAfter = 0

\* the populator, the repository table and the graceful manager
PopulatorNext ==
    \/ Populator
    \/ RepoCreate
    \/ \E r \in RepoIDs : RepoDelete(r)
    \/ Shutdown

PopulatorSpec == PopulatorInit /\ [][PopulatorNext]_vars

\* the scheduler runs the populator
PopulatorFairSpec ==
    /\ PopulatorSpec
    /\ WF_vars(Populator)

\* populateIssueIndexer over an unchanging repository table and without a
\* shutdown: the populator is the only process that moves
WalkNext == Populator

WalkSpec == PopulatorInit /\ [][WalkNext]_vars

\* the scheduler runs the populator
WalkFairSpec ==
    /\ WalkSpec
    /\ WF_vars(Populator)

\* a second queue worker
Worker2 == <<"handler", 2>>
Workers == {Worker, Worker2}

\* the batches of the concurrent invocations: records of issue 1, an upsert
\* and a delete, which take the handler through every branch
ConcRecords == {rec \in Records : rec.ID = 1 \/ rec.IDs = <<1>>}
ConcBatches == UNION {[1..n -> ConcRecords] : n \in 1..MaxConcBatch}

\* the queue engine runs the handler in both workers at once (the handler of
\* line 160 is one closure for every worker of the queue)
ConcInvoke(h) == HandlerInvoke(h) /\ data'[h] \in ConcBatches

\* the state of the holder and of the goroutine of InitIssueIndexer(false)
\* with IssueType bleve at its call of holder.set (line 203): the queue exists
\* (line 160) and the holder is still empty
AboutToSet ==
    /\ indexer = Nil
    /\ cancelled = FALSE
    /\ mutexW = "free"
    /\ mutexR = {}
    /\ condWait = {}
    /\ issueType = "bleve"
    /\ ipc = "lock"
    /\ wop = "set"
    /\ wcause = "none"
    /\ populate = TRUE
    /\ initExist = "new"
    /\ exitCause = "none"
    /\ populator = "none"

\* the backend's content is not followed
ConcInit ==
    /\ AboutToSet
    /\ OthersIdle
    /\ syncReindex = FALSE
    /\ startupTimeout = 0
    /\ hammerTime = 0
    /\ isChild = FALSE
    /\ index = NoIndex
    /\ hook = "untracked"
    /\ NoConsumer
    /\ NoPopulator

\* holder.set of line 203 and two queue workers, whose invocations may have
\* started before it
ConcNext ==
    \/ WLock
    \/ WAcquire
    \/ SetBody
    \/ WUnlock
    \/ \E h \in Workers : ConcInvoke(h)
    \/ \E h \in Workers : handler(h)

ConcSpec == ConcInit /\ [][ConcNext]_vars

\* the comment types: CommentTypeComment and one of the others
CommentTypes == {"comment", "close"}

\* the text of the comment at each position of an issue's comment list
CommentTexts == <<"first", "second", "third", "fourth", "fifth">>

\* issue.Comments: at most MaxComments comments, of any types, each with its
\* own text
CommentLists ==
    UNION {{[k \in 1..n |-> [Type |-> types[k], Content |-> CommentTexts[k]]] :
               types \in [1..n -> CommentTypes]} : n \in 0..MaxComments}

\* the issues UpdateIssueIndexer is called with
CommentIssues ==
    {[ID |-> i, RepoID |-> RepoOf(i), Title |-> "title", Content |-> "content",
      Comments |-> cs] : i \in IssueIDs, cs \in CommentLists}

\* UpdateIssueIndexer called with these issues, the holder still empty
CommentNext ==
    \E issue \in CommentIssues, ok \in BOOLEAN : UpdateIssueIndexer(issue, ok)

CommentSpec == ConcInit /\ [][CommentNext]_vars

\* the content of issue 1 after each of its edits
Edits == <<"first edit", "second edit", "third edit", "fourth edit">>

\* issue 1 as it is at the n-th call of a producer: it was edited before
\* every call
IssueVersion(n) ==
    [ID |-> 1, RepoID |-> RepoOf(1), Title |-> "title", Content |-> Edits[n],
     Comments |-> <<>>]

\* as ConcInit, with an empty backend whose content is followed
StaleInit ==
    /\ AboutToSet
    /\ OthersIdle
    /\ syncReindex = FALSE
    /\ startupTimeout = 0
    /\ hammerTime = 0
    /\ isChild = FALSE
    /\ index = EmptyIndex
    /\ hook = "untracked"
    /\ NoConsumer
    /\ NoPopulator

\* holder.set of line 203, UpdateIssueIndexer called after each edit of issue
\* 1, DeleteRepoIssueIndexer, and the queue engine delivering what they pushed
\* to one worker's handler and putting every residual back on the queue
StaleNext ==
    \/ WLock
    \/ WAcquire
    \/ SetBody
    \/ WUnlock
    \/ \E ok \in BOOLEAN : UpdateIssueIndexer(IssueVersion(ncalls + 1), ok)
    \/ \E err \in BOOLEAN, ids \in RepoIssueIDs, ok \in BOOLEAN :
          DeleteRepoIssueIndexer(err, ids, ok)
    \/ QueueDeliver(Worker)
    \/ get(Worker)
    \/ HandlerGot(Worker)
    \/ HandlerLoop(Worker)
    \/ HandlerAfterLoop(Worker)
    \/ QueueReturn(Worker)

StaleSpec == StaleInit /\ [][StaleNext]_vars

\* as Init, with the start of the consumer and the availability callback
\* followed
OrderInit ==
    /\ Boot
    /\ syncReindex = FALSE
    /\ startupTimeout = 0
    /\ hammerTime = 0
    /\ isChild = FALSE
    /\ index = NoIndex
    /\ hook = "untracked"
    /\ NoPopulator
    /\ consumer = "no"
    /\ callback = "none"
    /\ notice = "none"
    /\ asked = "none"

\* the holder, the goroutine of InitIssueIndexer, the backend's notifications
\* and one queue worker, whose handler the engine may invoke at any time
\* after CreateQueue
OrderNext ==
    \/ InitGoroutine
    \/ \E available \in BOOLEAN : Notify(available)
    \/ ConcInvoke(Worker)
    \/ handler(Worker)

OrderSpec == OrderInit /\ [][OrderNext]_vars

\* The Go scheduler runs every runnable goroutine: the goroutine of
\* InitIssueIndexer keeps taking steps, log.Fatal included, and so does a
\* handler inside an invocation.  Nothing forces a panic.
OrderFairSpec ==
    /\ OrderSpec
    /\ WF_vars(InitProgress)
    /\ WF_vars(Fatal)
    /\ WF_vars(handler(Worker))

\* The Go scheduler runs every runnable goroutine, a populator run ends, and
\* time passes.  Nothing forces a panic or a shutdown.
StartFairSpec ==
    /\ StartSpec
    /\ WF_vars(InitProgress)
    /\ WF_vars(Outer)
    /\ WF_vars(Watchdog)
    /\ WF_vars(PopulatorReturn)

\* ------------------------------------------------------ holder properties

GetPcs == {"get_rlock", "get_check", "wait_add", "wait_unlock", "wait_park",
           "wait_relock", "get_return"}
InGet(t) == pc[t] \in GetPcs
AfterGet(t) == pc[t] \notin (GetPcs \cup {"idle", "killed"})
Uninitialized == indexer = Nil /\ ~cancelled
Ready == indexer # Nil /\ ~cancelled
Cancelled == indexer = Nil /\ cancelled
Written == indexer # Nil \/ cancelled

\* C1: while the holder is uninitialized no get() has returned, so no reader
\* is past its get() or back from SearchIssuesByKeyword / IsAvailable; and a
\* get() that was called when the backend was already set returns that backend
\* without having gone through cond.Wait().
C1_GetBlocksUntilWritten ==
    \A t \in Readers :
       /\ Uninitialized => ~AfterGet(t)
       /\ (pc[t] = "got" /\ atCall[t].indexer # Nil) =>
             (got[t] = atCall[t].indexer /\ ~waited[t])

\* one reader was blocked in cond.Wait() and has been released, another called
\* get() after set and has its backend
C1_Witness ==
    \E t, u \in Readers :
       /\ pc[t] = "got" /\ waited[t] /\ got[t] # Nil
       /\ pc[u] = "got" /\ atCall[u].indexer # Nil /\ ~waited[u]

\* C2: once set or cancel has written the holder, no reader stays inside get()
\* (entering it, checking, or anywhere in cond.Wait()): as long as the process
\* runs, every reader is again and again outside get(); and a reader that has
\* come out of get() holds what the holder holds (the backend b after set(b)).
C2_AllReadersReleased ==
    /\ \A r \in Readers : []<>~(InGet(r) /\ Written /\ Running)
    /\ [](\A r \in Readers : pc[r] = "got" => got[r] = indexer)

\* every reader was blocked in cond.Wait() at once, and the one write has
\* released them all
C2_Witness ==
    /\ Written
    /\ \A r \in Readers : pc[r] = "got" /\ waited[r] /\ got[r] = indexer

\* C3: a get() called after cancel() returns nil, and without waiting.
C3_GetAfterCancelIsNil ==
    \A t \in Readers :
       (pc[t] = "got" /\ atCall[t].cancelled) => (got[t] = Nil /\ ~waited[t])

\* C4: a ready holder stays ready and a cancelled holder stays cancelled.
C4_StatesAreTerminal ==
    [][(Ready => Ready') /\ (Cancelled => Cancelled')]_vars

\* the log.Fatal calls of the backend-initialization failure paths
InitFailures == {"bleve_init", "bleve_panic", "es_new", "es_init", "unknown_type"}

\* C5: whenever a backend-initialization failure has ended the process,
\* holder.cancel() had been called.
C5_CancelBeforeFatal == exitCause \in InitFailures => cancelled

\* ----------------------------------------------------- handler properties

Returned(h) == pc[h] = "returned"
IsDeleteAt(h, i) == data[h][i].IsDelete
InResidual(h, i) == \E k \in DOMAIN residual[h] : residual[h][k] = i
TimesInResidual(h, i) == Cardinality({k \in DOMAIN residual[h] : residual[h][k] = i})

\* the records the handler returned, in the order it returned them
ResidualRecords(h) == [k \in DOMAIN residual[h] |-> data[h][residual[h][k]]]

\* positions of the batch's upsert (non-delete) records, in batch order
UpsertPositions(h) ==
    LET IsUpsert(i) == ~IsDeleteAt(h, i) IN SelectSeq(Positions(data[h]), IsUpsert)

\* what the backend answered to this invocation's calls
DeleteOk(h, i) ==
    \E k \in DOMAIN calls[h] :
       calls[h][k].op = "Delete" /\ calls[h][k].at = i /\ calls[h][k].ok
DeleteFailed(h, i) ==
    \E k \in DOMAIN calls[h] :
       calls[h][k].op = "Delete" /\ calls[h][k].at = i /\ ~calls[h][k].ok
DeleteFailedPing(h, i, alive) ==
    \E k \in DOMAIN calls[h] :
       /\ calls[h][k].op = "Delete" /\ calls[h][k].at = i /\ ~calls[h][k].ok
       /\ k + 1 \in DOMAIN calls[h]
       /\ calls[h][k + 1].op = "Ping" /\ calls[h][k + 1].ok = alive
IndexCalls(h) == {k \in DOMAIN calls[h] : calls[h][k].op = "Index"}
IndexFailedPing(h, alive) ==
    \E k \in IndexCalls(h) :
       /\ ~calls[h][k].ok
       /\ k + 1 \in DOMAIN calls[h]
       /\ calls[h][k + 1].op = "Ping" /\ calls[h][k + 1].ok = alive
Logged(h, what) == \E k \in DOMAIN logs[h] : logs[h][k] = what

\* C6: when holder.get() gave nil the handler returns the whole batch, the same
\* records in the same order, and has called no backend operation.
C6_NilIndexerReturnsBatch ==
    \A h \in Handlers :
       (Returned(h) /\ got[h] = Nil) =>
          /\ residual[h] = Positions(data[h])
          /\ ResidualRecords(h) = data[h]
          /\ calls[h] = <<>>

\* a batch of a delete and an upsert came back whole from a cancelled holder
C6_Witness ==
    \E h \in Handlers :
       /\ Returned(h) /\ got[h] = Nil /\ cancelled
       /\ Len(data[h]) >= 2
       /\ \E i, j \in DOMAIN data[h] : IsDeleteAt(h, i) /\ ~IsDeleteAt(h, j)
       /\ Len(residual[h]) = Len(data[h])

\* C7: when the Index call failed and Ping answered alive, the residual is
\* empty (no record is redelivered) and the error was logged.
C7_IndexFailedAliveDrops ==
    \A h \in Handlers :
       (Returned(h) /\ IndexFailedPing(h, TRUE)) =>
          (residual[h] = <<>> /\ Logged(h, "indexing"))

\* a batch of upserts only, whose one Index call failed with the backend alive
C7_Witness ==
    \E h \in Handlers :
       /\ Returned(h) /\ IndexFailedPing(h, TRUE)
       /\ Len(data[h]) >= 2
       /\ \A i \in DOMAIN data[h] : ~IsDeleteAt(h, i)

\* C8: when the Index call failed and Ping answered dead, the residual is
\* exactly the upsert records of the batch, each once, in batch order.
C8_IndexFailedDeadRequeues ==
    \A h \in Handlers :
       (Returned(h) /\ IndexFailedPing(h, FALSE)) =>
          /\ residual[h] = UpsertPositions(h)
          /\ \A i \in DOMAIN data[h] :
                TimesInResidual(h, i) = IF IsDeleteAt(h, i) THEN 0 ELSE 1

\* two upserts around a delete that succeeded; Index failed, the backend is dead
C8_Witness ==
    \E h \in Handlers :
       /\ Returned(h) /\ IndexFailedPing(h, FALSE)
       /\ Len(UpsertPositions(h)) >= 2
       /\ \E i \in DOMAIN data[h] : IsDeleteAt(h, i) /\ DeleteOk(h, i)
       /\ Len(residual[h]) >= 2

\* C9 (as claimed): every delete record whose Delete call failed is in the
\* residual, whatever Ping answered, and no delete record whose call succeeded.
C9_FailedDeleteAlwaysRequeued ==
    \A h \in Handlers :
       (Returned(h) /\ got[h] # Nil) =>
          \A i \in DOMAIN data[h] :
             /\ DeleteFailed(h, i) => InResidual(h, i)
             /\ DeleteOk(h, i) => ~InResidual(h, i)

\* C9 (amended): a delete record is in the residual, once, exactly when its
\* Delete call failed and the Ping that followed answered dead; a delete record
\* whose call succeeded, or failed with Ping alive, is not in the residual.
C9_FailedDeleteRequeuedIfDead ==
    \A h \in Handlers :
       (Returned(h) /\ got[h] # Nil) =>
          \A i \in DOMAIN data[h] :
             /\ DeleteFailedPing(h, i, FALSE) => TimesInResidual(h, i) = 1
             /\ DeleteFailedPing(h, i, TRUE) => ~InResidual(h, i)
             /\ DeleteOk(h, i) => ~InResidual(h, i)

\* three deletes: one succeeded, one failed with the backend alive, one failed
\* with the backend dead
C9_Witness ==
    \E h \in Handlers :
       /\ Returned(h)
       /\ \E i, j, k \in DOMAIN data[h] :
             /\ DeleteOk(h, i)
             /\ DeleteFailedPing(h, j, TRUE)
             /\ DeleteFailedPing(h, k, FALSE)

\* the failed deletes that went to unhandled, in batch order
RequeuedDeletes(h) ==
    LET Dead(i) == DeleteFailedPing(h, i, FALSE)
    IN SelectSeq(Positions(data[h]), Dead)

\* C10 (as claimed): if a Delete call failed, Index is not called and the
\* residual holds every upsert record and every failed delete record.
C10_AnyFailedDeleteShortCircuits ==
    \A h \in Handlers :
       (Returned(h) /\ \E i \in DOMAIN data[h] : DeleteFailed(h, i)) =>
          /\ IndexCalls(h) = {}
          /\ \A i \in DOMAIN data[h] :
                (~IsDeleteAt(h, i) \/ DeleteFailed(h, i)) => InResidual(h, i)

\* C10 (amended): if a Delete call failed and the Ping that followed answered
\* dead, Index is not called and the residual is those failed delete records
\* followed by every upsert record of the batch.
C10_DeadFailedDeleteShortCircuits ==
    \A h \in Handlers :
       (Returned(h) /\ \E i \in DOMAIN data[h] : DeleteFailedPing(h, i, FALSE)) =>
          /\ IndexCalls(h) = {}
          /\ residual[h] = RequeuedDeletes(h) \o UpsertPositions(h)

\* an upsert, a delete that failed with the backend dead, another upsert
C10_Witness ==
    \E h \in Handlers :
       /\ Returned(h)
       /\ Len(data[h]) = 3
       /\ ~IsDeleteAt(h, 1) /\ ~IsDeleteAt(h, 3)
       /\ DeleteFailedPing(h, 2, FALSE)
       /\ Len(residual[h]) = 3

\* the backend call made for record i succeeded
Applied(h, i) ==
    \/ DeleteOk(h, i)
    \/ \E k \in IndexCalls(h) :
          calls[h][k].ok /\ \E j \in DOMAIN calls[h][k].arg : calls[h][k].arg[j] = i

\* the backend call made for record i failed and the failure was logged
FailureLogged(h, i) ==
    \/ IsDeleteAt(h, i) /\ DeleteFailed(h, i) /\ Logged(h, "deleting")
    \/ /\ ~IsDeleteAt(h, i)
       /\ Logged(h, "indexing")
       /\ \E k \in IndexCalls(h) :
             ~calls[h][k].ok /\ \E j \in DOMAIN calls[h][k].arg : calls[h][k].arg[j] = i

\* C11: when the handler has returned, every record of the batch is in exactly
\* one of three outcomes: its backend call succeeded, or it is in the residual
\* (once), or it was dropped and the failure of its call was logged.  None is
\* both applied and returned, none is returned twice, none vanishes unlogged.
C11_OneOutcomePerRecord ==
    \A h \in Handlers :
       Returned(h) =>
          \A i \in DOMAIN data[h] :
             /\ ~(Applied(h, i) /\ InResidual(h, i))
             /\ TimesInResidual(h, i) <= 1
             /\ (~Applied(h, i) /\ ~InResidual(h, i)) => FailureLogged(h, i)
             /\ \A k \in DOMAIN residual[h] : residual[h][k] \in DOMAIN data[h]

\* one batch with the three outcomes: a delete applied, a delete dropped with
\* the backend alive, an upsert returned after Index failed on a dead backend
C11_Witness ==
    \E h \in Handlers :
       /\ Returned(h)
       /\ Len(data[h]) = 3
       /\ DeleteOk(h, 1)
       /\ DeleteFailedPing(h, 2, TRUE) /\ ~InResidual(h, 2)
       /\ ~IsDeleteAt(h, 3) /\ IndexFailedPing(h, FALSE)
       /\ residual[h] = <<3>>

\* ------------------------------------------- producer and queue properties

\* the record covers issue id d as a delete, or as an upsert
DeletesID(rec, d) == rec.IsDelete /\ \E k \in DOMAIN rec.IDs : rec.IDs[k] = d
UpsertsID(rec, d) == ~rec.IsDelete /\ rec.ID = d

\* Every backend call so far succeeded and the holder gave its backend, so no
\* record was ever returned for redelivery: the records have reached the
\* handler in the order they were enqueued.  The worker's batch is the last of
\* them and the queue is empty.
DrainedWithoutFailure ==
    /\ Returned(Worker)
    /\ got[Worker] # Nil
    /\ index.ok
    /\ queue = <<>>
    /\ residual[Worker] = <<>>

\* C12: once a delete record covering issue id d was enqueued after every
\* upsert record for d and the queue has drained with every backend call
\* succeeding, d is absent from the index, also when the upsert and the later
\* delete came to the handler in one batch.
C12_DeletedIdAbsentAfterDrain ==
    \A d \in IssueIDs :
       (/\ DrainedWithoutFailure
        /\ \E j \in DOMAIN data[Worker] :
              /\ DeletesID(data[Worker][j], d)
              /\ \A i \in DOMAIN data[Worker] :
                    UpsertsID(data[Worker][i], d) => i < j)
       => index.docs[d] = NoData

\* C13: UpdateIssueIndexer and DeleteRepoIssueIndexer never wait on the holder
\* and call no backend operation: whatever the holder's state, a call can run
\* to its return, and it leaves the holder, the backend and every thread as
\* they were, having pushed at most one record.
C13_ProducersNeverWaitOnHolder ==
    /\ []((Running /\ ncalls < MaxCalls) =>
             /\ \A issue \in Issues : ENABLED UpdateIssueIndexer(issue, TRUE)
             /\ \A ids \in RepoIssueIDs :
                   ENABLED DeleteRepoIssueIndexer(FALSE, ids, TRUE))
    /\ [][ncalls' # ncalls =>
             /\ UNCHANGED <<holderVars, getVars, index, calls>>
             /\ \/ queue' = queue
                \/ /\ Len(queue') = Len(queue) + 1
                   /\ SubSeq(queue', 1, Len(queue)) = queue]_vars

\* both producers have returned, one record each, before set or cancel
C13_Witness ==
    /\ Uninitialized
    /\ ncalls = 2
    /\ Len(queue) = 2
    /\ ~queue[1].IsDelete /\ queue[2].IsDelete

\* C14: DeleteRepoIssueIndexer pushes nothing when loading the ids failed or
\* the repository has no issue ids; otherwise it pushes exactly one record, a
\* delete carrying all the ids.
C14_DeleteRepoPushesOneOrNothing ==
    [][\A err \in BOOLEAN, ids \in RepoIssueIDs :
          DeleteRepoIssueIndexer(err, ids, TRUE) =>
             IF err \/ ids = <<>>
             THEN queue' = queue
             ELSE /\ Len(queue') = Len(queue) + 1
                  /\ SubSeq(queue', 1, Len(queue)) = queue
                  /\ queue'[Len(queue')].IsDelete
                  /\ queue'[Len(queue')].IDs = ids]_vars

\* the only call so far was for a repository holding every issue
C14_Witness ==
    /\ ncalls = 1
    /\ Len(queue) = 1
    /\ queue[1].IsDelete
    /\ queue[1].IDs = [k \in IssueIDs |-> k]

\* the two shapes of a record
SingleUpsert(rec) == ~rec.IsDelete /\ rec.ID \in IssueIDs /\ rec.IDs = <<>>
BulkDelete(rec) ==
    /\ rec.IsDelete /\ rec.IDs # <<>>
    /\ rec.ID = 0 /\ rec.RepoID = 0
    /\ rec.Title = "" /\ rec.Content = "" /\ rec.Comments = <<>>

\* the records on the queue and in the worker's batch
QueuedRecords == {queue[k] : k \in DOMAIN queue}
BatchRecords == {data[Worker][k] : k \in DOMAIN data[Worker]}

\* C15: every record on the queue or in a batch is a single upsert or a bulk
\* delete; an upsert carries the id of its issue; and no record changes between
\* its push and its consumption: a step that is not a push only moves records
\* between the queue and the batch, and the batch is the same from delivery to
\* the handler's return, residual included.
C15_RecordsWellFormedAndUnmodified ==
    /\ [](\A rec \in QueuedRecords \cup BatchRecords :
             SingleUpsert(rec) \/ BulkDelete(rec))
    /\ [][\A issue \in Issues :
             (UpdateIssueIndexer(issue, TRUE)) =>
                queue'[Len(queue')].ID = issue.ID]_vars
    /\ [][ncalls' = ncalls =>
             QueuedRecords' \cup BatchRecords' \subseteq
                QueuedRecords \cup BatchRecords]_vars
    /\ [][(pc[Worker] \notin {"idle", "returned"} /\ pc'[Worker] # "killed") =>
             data'[Worker] = data[Worker]]_vars
    /\ [](Returned(Worker) =>
             \A k \in DOMAIN residual[Worker] :
                residual[Worker][k] \in DOMAIN data[Worker])

\* a delete and an upsert are on their way back to the queue in a residual
C15_Witness ==
    /\ Returned(Worker)
    /\ \E k \in DOMAIN residual[Worker] : IsDeleteAt(Worker, residual[Worker][k])
    /\ \E k \in DOMAIN residual[Worker] : ~IsDeleteAt(Worker, residual[Worker][k])

\* ------------------------------ SearchIssuesByKeyword, IsAvailable properties

SearchReturned(r) == pc[r] = "returned" /\ ret[r].fn = "SearchIssuesByKeyword"

\* C16: SearchIssuesByKeyword returns an error and no ids when get() gave nil
\* (the holder was cancelled), then without calling the backend, and when the
\* backend's Search failed, whatever result came with the failure.
C16_SearchFailsWithoutIds ==
    \A r \in Readers :
       SearchReturned(r) =>
          /\ got[r] = Nil => (ret[r].err /\ ret[r].ids = <<>> /\ ~ret[r].asked)
          /\ (ret[r].asked /\ ret[r].res.err) => (ret[r].err /\ ret[r].ids = <<>>)

\* a Search that failed although the backend sent a hit along with its error
C16_Witness ==
    \E r \in Readers :
       /\ SearchReturned(r)
       /\ got[r] # Nil
       /\ ret[r].asked /\ ret[r].res.err /\ Len(ret[r].res.hits) > 0
       /\ ret[r].err

\* C17: a SearchIssuesByKeyword that returns no error returns the issue ids
\* of the backend's hits: as many ids as hits, the k-th id that of the k-th hit.
C17_SearchReturnsHitIdsInOrder ==
    \A r \in Readers :
       (SearchReturned(r) /\ ~ret[r].err) =>
          /\ ret[r].asked /\ ~ret[r].res.err
          /\ Len(ret[r].ids) = Len(ret[r].res.hits)
          /\ \A k \in DOMAIN ret[r].res.hits : ret[r].ids[k] = ret[r].res.hits[k].ID

\* a successful Search whose hits came in an order that is not that of the ids
C17_Witness ==
    \E r \in Readers :
       /\ SearchReturned(r) /\ ~ret[r].err
       /\ Len(ret[r].res.hits) = 2
       /\ ret[r].res.hits[1].ID > ret[r].res.hits[2].ID
       /\ ret[r].ids = <<2, 1>>

\* C18: IsAvailable returns false when the holder was cancelled before the
\* call, and else exactly what the backend's Ping() answered; its get() waits
\* only if the holder was uninitialized at the call.
C18_AvailableIsPingUnlessCancelled ==
    [][\A r \in Readers :
          (pc[r] = "got" /\ pc'[r] = "returned" /\ ret'[r].fn = "IsAvailable") =>
             /\ atCall[r].cancelled => ~ret'[r].avail
             /\ ~atCall[r].cancelled =>
                   IF got[r] = Nil THEN ~ret'[r].avail
                   ELSE ret'[r].asked /\ ret'[r].avail = ret'[r].ping
             /\ waited[r] => atCall[r] = NoHolderCall]_vars

\* the goroutine of InitIssueIndexer has sent on waitChannel and closed it
Signalled == ipc = "done"

\* C19: InitIssueIndexer(true) has not returned unless the goroutine signalled
\* completion or the graceful shutdown began; when the populator was run, the
\* signal comes after that run returned; and once either of the two happened
\* a live process does not stay inside InitIssueIndexer.
C19_SyncInitReturnsOnSignalOrShutdown ==
    /\ [](syncReindex /\ opc = "returned" => Signalled \/ shutdown)
    /\ [](syncReindex /\ Signalled /\ populate => populator = "returned")
    /\ []<>~(syncReindex /\ Running /\ opc # "returned" /\ (Signalled \/ shutdown))

\* InitIssueIndexer(true) returned on the signal, sent after the populator run
C19_Witness ==
    /\ syncReindex /\ opc = "returned"
    /\ Signalled /\ ~shutdown
    /\ populate /\ populator = "returned"

\* the watchdog's timer has fired, and the process has not yet exited
TimedOut == wpc \in {"case_timeout", "fatal"}

\* C20: the watchdog's timer takes the select only in an InitIssueIndexer(false)
\* with StartupTimeout > 0, when neither the signal nor the shutdown came and
\* StartupTimeout (plus GracefulHammerTime in a child) ticks have passed; the
\* process then exits with the time-out message, after Terminate() on a
\* Shutdownable queue; a watchdog that took the signal never exits the process.
C20_WatchdogFatalOnTimeoutOnly ==
    /\ [][(TimedOut' /\ ~TimedOut) =>
            /\ ~syncReindex /\ startupTimeout > 0
            /\ ~Signalled /\ ~shutdown
            /\ elapsed = startupTimeout + (IF isChild THEN hammerTime ELSE 0)]_vars
    /\ [][(exitCause' = "timeout" /\ Running) =>
            TimedOut /\ terminated \in {"terminated", "not_shutdownable"}]_vars
    /\ [][(wpc \in {"case_signal", "done"}) =>
            (~TimedOut' /\ exitCause' # "timeout")]_vars
    /\ []<>~(Running /\ TimedOut)
    /\ []<>~(/\ Running /\ wpc = "select" /\ ~Signalled /\ ~shutdown
             /\ elapsed = startupTimeout + (IF isChild THEN hammerTime ELSE 0))

\* a child process exited on the time-out, after its longer timeout and after
\* terminating the queue
C20_Witness ==
    /\ exitCause = "timeout"
    /\ isChild /\ hammerTime > 0
    /\ elapsed = startupTimeout + hammerTime
    /\ terminated = "terminated"
    /\ ~Signalled /\ ~shutdown

\* C21: once the graceful shutdown has begun, the watchdog neither calls
\* Terminate() on the queue nor log.Fatal, whatever the order of the shutdown,
\* the timer's expiry and the watchdog's select.
C21_NoFatalTimeoutOnceShutdown ==
    [][shutdown =>
          /\ ~(wpc = "case_timeout" /\ wpc' = "fatal")
          /\ ~(Running /\ exitCause' = "timeout")]_vars

\* populateIssueIndexer was started by this InitIssueIndexer
PopulatorStarted == populator # "none"

\* C22: the populator is started at most once, and the goroutine that reaches
\* line 244 starts it exactly when the backend's Init() succeeded and reported
\* that no index existed; it is never started when the index existed, when
\* there was no successful Init(), or when the initialization failed.
C22_PopulatorStartedIffIndexIsNew ==
    /\ [][(populator' # populator /\ populator' \in {"inline", "spawned"}) =>
            (populator = "none" /\ ipc = "populate" /\ initExist = "new")]_vars
    /\ [][PopulatorStarted => PopulatorStarted']_vars
    /\ [](ipc \in {"signal", "done"} => (PopulatorStarted <=> initExist = "new"))
    /\ [](PopulatorStarted => indexer # Nil /\ ~cancelled)
    /\ [](exitCause \in {"bleve_init", "bleve_panic", "es_new", "es_init",
                         "unknown_type"} => ~PopulatorStarted)

\* Init() reported a new index and the goroutine, past line 250, has started
\* the populator in a goroutine of its own
C22_Witness ==
    /\ ipc = "done"
    /\ initExist = "new" /\ ~syncReindex
    /\ populator = "spawned"

\* C23: when the process terminates after the backend became ready, the
\* registered hook has called the backend's Close() exactly once, whatever the
\* backend type; and Close() is not called before the shutdown.
C23_HookClosesBackendOnce ==
    /\ hook = "ran" => closes = 1
    /\ closes > 0 => shutdown /\ hook = "ran"
    /\ closes <= 1

\* C24: when a populator run ends without having been cancelled, every
\* repository that existed from the start of the walk to its end was processed
\* exactly once, whatever was created or deleted meanwhile and whichever page
\* queries failed.
C24_EveryStableRepoProcessedOnce ==
    ppc = "complete" => \A r \in throughout : processed[r] = 1

\* populateIssueIndexer was called and has not returned
PopulatorRuns == populator \in {"inline", "spawned"}

\* C25: once the populator's context is cancelled, UpdateRepoIndexer is called
\* for no repository but the one whose check has already passed, at most one
\* more page is fetched, and the populator returns; a populator cancelled before
\* its first check returns without a call of UpdateIssueIndexer or a Push.
C25_CancelledPopulatorStops ==
    /\ [][(shutdown /\ ppc # "update_repo") =>
            (ppc' # "update_repo" /\ processed' = processed
             /\ queue' = queue /\ ncalls' = ncalls)]_vars
    /\ [](pagesAfter <= 1)
    /\ [][(shutdown /\ ppc = "start") => ppc' \in {"start", "check_page"}]_vars
    /\ [][(shutdown /\ ppc = "check_page") => ppc' \in {"check_page", "stopped"}]_vars
    /\ [](ppc = "start" => queue = <<>> /\ ncalls = 0)
    /\ []<>~(shutdown /\ Running /\ PopulatorRuns)

\* a populator that was cancelled between the check of line 287 and the query:
\* it has fetched that one page and stopped at its first repository, after the
\* records of an earlier page
C25_Witness ==
    /\ ppc = "stopped"
    /\ pagesAfter = 1
    /\ page = 2 /\ todo # <<>>
    /\ ncalls > 0

\* the ids of the issues of a repository
IssueIDsOf(r) == {i \in IssueIDs : RepoOf(i) = r}

\* the records that a step appended to the queue
Appended == SubSeq(queue', Len(queue) + 1, Len(queue'))

\* C26 as stated: for every repository the populator processes it calls
\* UpdateIssueIndexer, and with it Push, exactly once for each issue of the
\* repository, and it leaves the backend alone.
C26_OnePushPerIssueOfRepo ==
    [][\A errIssues, errComments \in BOOLEAN, oks \in [IssueIDs -> BOOLEAN] :
          UpdateRepoIndexer(errIssues, errComments, oks) =>
             /\ ncalls' = ncalls + Cardinality(IssueIDsOf(Head(todo)))
             /\ index' = index]_vars

\* C26, amended: the populator leaves the backend alone; for a repository whose
\* issues and comments it loaded it calls UpdateIssueIndexer once for each
\* issue, in order, each call pushing the issue's upsert record; when a load
\* fails it calls it for none and pushes nothing.
C26_OnePushPerLoadedIssue ==
    /\ [][index' = index /\ closes' = closes]_vars
    /\ [][\A errIssues, errComments \in BOOLEAN, oks \in [IssueIDs -> BOOLEAN] :
             UpdateRepoIndexer(errIssues, errComments, oks) =>
                IF errIssues \/ errComments
                THEN ncalls' = ncalls /\ queue' = queue
                ELSE /\ ncalls' = ncalls + Cardinality(IssueIDsOf(Head(todo)))
                     /\ Len(queue') >= Len(queue)
                     /\ SubSeq(queue', 1, Len(queue)) = queue
                     /\ \A k \in DOMAIN Appended :
                           /\ Appended[k] \in Upserts
                           /\ Appended[k].ID \in IssueIDsOf(Head(todo))
                           /\ \A j \in 1..(k - 1) : Appended[j].ID < Appended[k].ID
                     /\ (\A i \in IssueIDs : oks[i]) =>
                           Len(Appended) = Cardinality(IssueIDsOf(Head(todo)))]_vars

\* the populator has processed repository 1 and pushed the records of its two
\* issues, and has processed a repository whose load failed or that has no issue
C26_Witness ==
    /\ processed[1] = 1 /\ processed[2] = 1
    /\ ncalls = 2
    /\ Len(queue) = 2 /\ queue[1].ID = 1 /\ queue[2].ID = 2

\* ------------------------------------------------ the search over the index

\* line 392: SearchIssuesByKeyword asks for the first 50 hits
SearchLimit == 50

\* the texts of a document: a keyword matches the title, the content or a
\* comment
Keywords(rec) ==
    ({rec.Title, rec.Content} \cup {rec.Comments[k] : k \in DOMAIN rec.Comments})
       \ {""}

\* an empty list of repository ids is no restriction
InScope_Any(rec, repoIDs) == TRUE
InScope(rec, repoIDs) == repoIDs = {} \/ rec.RepoID \in repoIDs

\* the ids of the documents that match the keyword within the repositories
Matching(ix, kw, repoIDs) ==
    {i \in DOMAIN ix.docs :
        /\ ix.docs[i] # NoData
        /\ kw \in Keywords(ix.docs[i])
        /\ InScope(ix.docs[i], repoIDs)}

\* Indexer.Search (line 56): the total of the matches and at most limit hits
\* from position start of the ranking.  The ranking of equally relevant
\* documents is the backend's: desc tells which of the two orders it took.
BackendSearch(ix, kw, repoIDs, limit, start, desc) ==
    LET asc == Ascending(Matching(ix, kw, repoIDs))
        n == Len(asc)
        ranked == IF desc THEN [k \in 1..n |-> asc[n + 1 - k]] ELSE asc
        rest == IF n > start THEN n - start ELSE 0
        m == IF rest < limit THEN rest ELSE limit
    IN [err |-> FALSE, total |-> n,
        hits |-> [k \in 1..m |-> [ID |-> ranked[start + k], Score |-> 1]]]

\* line 392: indexer.Search(ctx, keyword, repoIDs, 50, 0)
SearchQuery_Unlimited(ix, kw, repoIDs, desc) ==
    BackendSearch(ix, kw, repoIDs, Cardinality(DOMAIN ix.docs), 0, desc)
SearchQuery(ix, kw, repoIDs, desc) ==
    BackendSearch(ix, kw, repoIDs, SearchLimit, 0, desc)

\* lines 384-400: the ids SearchIssuesByKeyword returns for these repositories
\* and this keyword when the backend answers
SearchIDs(ix, repoIDs, kw, desc) ==
    SearchReturn(SearchQuery(ix, kw, repoIDs, desc)).ids

\* an index of n documents, more than the issues the other specifications
\* follow: document i is of repository 1 or 2 and has the title "title"
CrowdedIndex(n) ==
    [on |-> TRUE,
     docs |-> [i \in 1..n |->
                 [NoData EXCEPT !.ID = i, !.RepoID = 1 + (i % 2),
                                !.Title = "title", !.Content = "content"]],
     ok |-> TRUE]

\* the repository scopes and the keywords of the callers
SearchScopes == {{}, {1}, {2}}
SearchKeywords == {"title", "absent"}

\* lines 384-400 once holder.get() has returned, for the caller's arguments
\* and the backend's answer: an error, or the search over the index
SearchIssuesByKeyword(r, repoIDs, kw, desc, err) ==
    LET res == IF err THEN [err |-> TRUE, total |-> 0, hits |-> <<>>]
               ELSE SearchQuery(index, kw, repoIDs, desc)
    IN /\ Running
       /\ pc[r] = "got"
       /\ ret' = [ret EXCEPT ![r] =
                     IF got[r] = Nil
                     THEN [NoRet EXCEPT !.fn = "SearchIssuesByKeyword",
                                        !.err = TRUE]
                     ELSE [NoRet EXCEPT !.fn = "SearchIssuesByKeyword",
                                        !.asked = TRUE,
                                        !.res = res,
                                        !.err = SearchReturn(res).err,
                                        !.ids = SearchReturn(res).ids]]
       /\ pc' = [pc EXCEPT ![r] = "returned"]
       /\ atCall' = [atCall EXCEPT ![r] = NoHolderCall]
       /\ waited' = [waited EXCEPT ![r] = FALSE]
       /\ UNCHANGED got
       /\ ReaderFrame

\* the caller of SearchIssuesByKeyword that SearchSpec follows
Searcher == <<"reader", 1>>

\* as ConcInit, with an index of any number of documents up to MaxExtra more
\* than the limit of the search
SearchInit ==
    /\ AboutToSet
    /\ OthersIdle
    /\ syncReindex = FALSE
    /\ startupTimeout = 0
    /\ hammerTime = 0
    /\ isChild = FALSE
    /\ index \in {CrowdedIndex(n) : n \in 0..(SearchLimit + MaxExtra)}
    /\ hook = "untracked"
    /\ NoConsumer
    /\ NoPopulator

\* holder.set of line 203 and a caller of SearchIssuesByKeyword, whose call
\* may have started before it
SearchNext ==
    \/ WLock
    \/ WAcquire
    \/ SetBody
    \/ WUnlock
    \/ ReaderCall(Searcher)
    \/ get(Searcher)
    \/ \E repoIDs \in SearchScopes, kw \in SearchKeywords, desc \in BOOLEAN,
          err \in BOOLEAN :
          SearchIssuesByKeyword(Searcher, repoIDs, kw, desc, err)
    \/ ReaderDone(Searcher)

SearchSpec == SearchInit /\ [][SearchNext]_vars

\* ------------------------------------------------- end-to-end properties

\* the issue of an id
IssueOf(d) == CHOOSE issue \in Issues : issue.ID = d

\* the upsert record of issue d is on the queue
Queued(d) == \E k \in DOMAIN queue : UpsertsID(queue[k], d)

\* the upsert record of issue d is in the batch the worker's handler holds,
\* not yet passed to Index or on its way back to the queue in the residual
InFlight(d) ==
    /\ pc[Worker] # "idle"
    /\ \E i \in DOMAIN data[Worker] :
          /\ UpsertsID(data[Worker][i], d)
          /\ Returned(Worker) => InResidual(Worker, i)

\* the index holds the record of issue d
Indexed(d) == index.on /\ index.docs[d] = UpsertData(IssueOf(d))

\* the record of issue d is on its way to the index or in it
Held(d) == Queued(d) \/ InFlight(d) \/ Indexed(d)

\* the step removed the document of issue d: a delete covering d was applied
Deleted(d) == index.docs[d] # NoData /\ index'.docs[d] = NoData

\* nothing is on its way: the queue is empty and the worker is idle or back
\* with nothing to return
Drained ==
    /\ queue = <<>>
    /\ pc[Worker] = "idle" \/ (Returned(Worker) /\ residual[Worker] = <<>>)

\* the contents the index can have: under each id nothing or the record of
\* the issue of that id
IndexContents ==
    {docs \in [IssueIDs -> Upserts \cup {NoData}] :
        \A d \in IssueIDs : docs[d] \in {NoData, UpsertData(IssueOf(d))}}

\* in every such index, for every issue whose record it holds, a search for a
\* keyword of its title, content or comments returns the issue's id, once,
\* when it is unscoped or scoped to the issue's repository, and does not
\* return it when it is scoped only to other repositories
Searchable ==
    \A docs \in IndexContents, d \in IssueIDs, desc \in BOOLEAN :
       docs[d] # NoData =>
          \A kw \in Keywords(docs[d]), scope \in SUBSET RepoIDs :
             LET ids == SearchIDs([EmptyIndex EXCEPT !.docs = docs], scope, kw, desc)
                 at == {k \in DOMAIN ids : ids[k] = d}
             IN IF scope = {} \/ RepoOf(d) \in scope
                THEN Cardinality(at) = 1
                ELSE at = {}

LocalState(h) ==
    <<got[h], data[h], pos[h], iData[h], unhandled[h], calls[h], logs[h],
      residual[h]>>

\* the calls this invocation made for the record at position i of its batch
DeleteCallsAt(h, i) ==
    {k \in DOMAIN calls[h] : calls[h][k].op = "Delete" /\ calls[h][k].at = i}

\* The outcome of an invocation that ran alone, as a function of its batch and
\* of the answers the backend gave to its calls: one Delete call for each
\* delete record; the residual is the deletes that failed on a dead backend
\* followed by the upserts, and Index is not called, when there is such a
\* delete; else Index is called once with the upserts, and the residual is the
\* upserts when it failed on a dead backend and empty otherwise.
AloneOutcome(h) ==
    /\ iData[h] = UpsertPositions(h)
    /\ unhandled[h] = RequeuedDeletes(h)
    /\ \A i \in DOMAIN data[h] :
          Cardinality(DeleteCallsAt(h, i)) = IF IsDeleteAt(h, i) THEN 1 ELSE 0
    /\ IF RequeuedDeletes(h) # <<>>
       THEN /\ IndexCalls(h) = {}
            /\ residual[h] = RequeuedDeletes(h) \o UpsertPositions(h)
       ELSE /\ Cardinality(IndexCalls(h)) = 1
            /\ \A k \in IndexCalls(h) : calls[h][k].arg = UpsertPositions(h)
            /\ residual[h] =
                  IF IndexFailedPing(h, FALSE) THEN UpsertPositions(h) ELSE <<>>
    /\ \A i \in DOMAIN data[h] :
          /\ ~(Applied(h, i) /\ InResidual(h, i))
          /\ TimesInResidual(h, i) <= 1
          /\ (~Applied(h, i) /\ ~InResidual(h, i)) => FailureLogged(h, i)

\* C28: when two invocations of the handler run interleaved, each one that has
\* returned has the residual and the record outcomes of an invocation that
\* ran alone on its batch with the same backend answers, and no step changes
\* what both invocations keep for themselves: a step of one leaves the batch,
\* the slices, the calls and the residual of the other as they were.
C28_ConcurrentInvocationsIndependent ==
    /\ [](\A h \in Workers : Returned(h) => got[h] # Nil /\ AloneOutcome(h))
    /\ [][\A h, g \in Workers :
             (h # g /\ LocalState(h)' # LocalState(h)) =>
                LocalState(g)' = LocalState(g)]_vars

\* both invocations have returned: one with a delete that failed on a dead
\* backend followed by its upsert, the other with its upsert after Index
\* failed on a dead backend and a delete that succeeded
C28_Witness ==
    /\ Returned(Worker) /\ Returned(Worker2)
    /\ Len(data[Worker]) = 2 /\ Len(data[Worker2]) = 2
    /\ DeleteFailedPing(Worker, 1, FALSE) /\ residual[Worker] = <<1, 2>>
    /\ DeleteOk(Worker2, 2) /\ IndexFailedPing(Worker2, FALSE)
    /\ residual[Worker2] = <<1>>

\* --------------------------------------------------------------- redelivery

\* the batches of upsert records
UpsertBatches == UNION {[1..n -> Upserts] : n \in 1..MaxBatch}

\* the worker's batch holds upsert records only and the index holds every one
\* of them, as it does once the batch has been handled with a healthy backend
BatchIndexed ==
    /\ data[Worker] \in UpsertBatches
    /\ \A k \in DOMAIN data[Worker] : Indexed(data[Worker][k].ID)

\* the worker's handler has gone through its batch and is at its Index call
AtIndexCall ==
    /\ pc[Worker] = "loop"
    /\ pos[Worker] > Len(data[Worker])
    /\ unhandled[Worker] = <<>>

\* the ids a search returns hold no id twice
NoDuplicateMatch(ix) ==
    \A kw \in {"title", "content", "said"}, scope \in SUBSET RepoIDs,
       desc \in BOOLEAN :
       LET ids == SearchIDs(ix, scope, kw, desc)
       IN \A j, k \in DOMAIN ids : ids[j] = ids[k] => j = k

\* whatever the index held, applying a batch of upsert records twice gives the
\* index that applying it once gives, and no search of it returns an id twice
IndexIdempotent ==
    \A docs \in IndexContents, batch \in UpsertBatches :
       LET once == BackendIndex([EmptyIndex EXCEPT !.docs = docs], batch)
       IN /\ BackendIndex(once, batch) = once
          /\ NoDuplicateMatch(once)

\* C29: applying a batch of upsert records to the index a second time leaves
\* the index, and so every search result, as the first time left it, and no
\* search returns an id twice; and a handler invocation on a batch of upsert
\* records that the index already holds, its Index call succeeding, passes
\* Index the whole batch in one call, leaves the index as it was and returns
\* nothing for redelivery.
C29_RedeliveryLeavesIndexUnchanged ==
    /\ []IndexIdempotent
    /\ [][(BatchIndexed /\ AtIndexCall /\ index.ok /\ index'.ok /\
           Returned(Worker)') =>
             /\ index' = index
             /\ residual'[Worker] = <<>>
             /\ calls'[Worker] =
                   <<Call("Index", 0, Positions(data[Worker]), TRUE)>>]_vars

\* no backend call has failed, the index holds the record of issue 1, and the
\* same record has come to the handler again, alone in its batch: the handler
\* is at its Index call
C29_Witness ==
    /\ index.ok
    /\ Indexed(1)
    /\ data[Worker] = <<UpsertData(IssueOf(1))>>
    /\ AtIndexCall

\* ------------------------------------------------- the comments of a record

\* the positions of the comments of type CommentTypeComment
RegularAt(cs) == {i \in DOMAIN cs : cs[i].Type = "comment"}

\* the k-th of them, in the order of the list
KthRegular(cs, k) ==
    CHOOSE i \in RegularAt(cs) : Cardinality({j \in RegularAt(cs) : j <= i}) = k

\* out is the contents of the comments of type CommentTypeComment, in the
\* order of the list, and nothing else
RegularContents(cs, out) ==
    /\ Len(out) = Cardinality(RegularAt(cs))
    /\ \A k \in DOMAIN out : out[k] = cs[KthRegular(cs, k)].Content

\* every record UpdateIssueIndexer builds carries the contents of the issue's
\* regular comments, in order, and the issue's id, repository, title and
\* content
RecordsCarryRegularComments ==
    \A issue \in CommentIssues :
       LET rec == UpdatePushes(issue)[1]
       IN /\ RegularContents(issue.Comments, rec.Comments)
          /\ \A k \in DOMAIN issue.Comments :
                issue.Comments[k].Type # "comment" =>
                   \A j \in DOMAIN rec.Comments :
                      rec.Comments[j] # issue.Comments[k].Content

\* C30: the record UpdateIssueIndexer builds carries in Comments exactly the
\* contents of the issue's comments of type CommentTypeComment, in the order
\* of the issue's comments, and no content of a comment of another type; and
\* the record it pushes is the record it built.
C30_CommentsAreRegularCommentsInOrder ==
    /\ []RecordsCarryRegularComments
    /\ [][queue' # queue =>
             \E issue \in CommentIssues :
                /\ queue' = Append(queue, UpsertData(issue))
                /\ RegularContents(issue.Comments, queue'[Len(queue')].Comments)]_vars

\* a record was pushed for an issue with a regular comment, a comment of
\* another type and a second regular comment: it carries the first and the
\* third text
C30_Witness ==
    /\ ncalls = 1
    /\ Len(queue) = 1
    /\ queue[1] = UpsertData([ID |-> 1, RepoID |-> RepoOf(1), Title |-> "title",
                             Content |-> "content",
                             Comments |-> <<[Type |-> "comment", Content |-> "first"],
                                            [Type |-> "close", Content |-> "second"],
                                            [Type |-> "comment", Content |-> "third"]>>])
    /\ queue[1].Comments = <<"first", "third">>

\* ------------------------------------------------- the order of the residual

\* the residual names positions of the batch in increasing order
Increasing(seq) == \A j, k \in DOMAIN seq : j < k => seq[j] < seq[k]

\* C31: the residual the handler returns is a subsequence of its batch: a
\* record that preceded another in the batch never follows it in the residual.
C31_ResidualIsSubsequence ==
    \A h \in Handlers : Returned(h) => Increasing(residual[h])

\* ------------------------------------------------ update order across batches

\* which edit of issue 1 an upsert record carries
Version(rec) == CHOOSE n \in DOMAIN Edits : Edits[n] = rec.Content

\* the edits carried by the upsert records of a sequence of records, in order
VersionsOf(recs) ==
    LET IsUpsert(rec) == ~rec.IsDelete
        ups == SelectSeq(recs, IsUpsert)
    IN [k \in DOMAIN ups |-> Version(ups[k])]

\* the edit the index holds, the edits of the batch the handler has not yet
\* passed to Index, and the edits on the queue
VersionsOnTheWay ==
    (IF index.docs[1] = NoData THEN <<>> ELSE <<Version(index.docs[1])>>)
       \o (IF pc[Worker] \in {"idle", "returned"} THEN <<>>
           ELSE VersionsOf(data[Worker]))
       \o VersionsOf(queue)

\* C32: an update requeued after a failure can be applied after a newer one.
\* While no backend call has failed the updates of an issue reach the index
\* in the order of their pushes: the edit in the index, the edits in the
\* handler's batch and the edits on the queue are in increasing order.  After
\* an Index call that failed with the backend down the residual is the
\* batch's upserts, and the queue engine puts a residual behind the records
\* pushed meanwhile.
C32_OrderKeptOnlyWithoutFailure ==
    /\ [](index.ok => Increasing(VersionsOnTheWay))
    /\ []((Returned(Worker) /\ IndexFailedPing(Worker, FALSE)) =>
             residual[Worker] = UpsertPositions(Worker))
    /\ [][(Returned(Worker) /\ pc'[Worker] = "idle" /\ Running') =>
             queue' = queue \o ResidualRecords(Worker)]_vars

\* the first edit was requeued after its Index call failed with the backend
\* down and came back to the handler behind the second edit, in one batch;
\* Index has succeeded, the queue has drained and the index holds the first
\* edit
C32_Witness ==
    /\ Returned(Worker)
    /\ queue = <<>> /\ residual[Worker] = <<>>
    /\ ncalls = 2
    /\ data[Worker] = <<UpsertData(IssueVersion(2)), UpsertData(IssueVersion(1))>>
    /\ calls[Worker] = <<Call("Index", 0, <<1, 2>>, TRUE)>>
    /\ ~index.ok
    /\ index.docs[1] = UpsertData(IssueVersion(1))

\* ------------------------------------------------------- the one Index call

\* the calls of Delete this invocation has made
DeleteCalls(h) == {k \in DOMAIN calls[h] : calls[h][k].op = "Delete"}

\* C33: within one handler invocation Index is called at most once; when it
\* is called, every delete record of the batch has had its Delete call, all
\* of them before it, its argument is the batch's non-delete records in batch
\* order, and no record is in the unhandled list.
C33_OneIndexCallAfterDeletes ==
    \A h \in Handlers :
       /\ Cardinality(IndexCalls(h)) <= 1
       /\ \A k \in IndexCalls(h) :
             /\ calls[h][k].arg = UpsertPositions(h)
             /\ \A i \in DOMAIN data[h] :
                   IsDeleteAt(h, i) => Cardinality(DeleteCallsAt(h, i)) = 1
             /\ \A j \in DeleteCalls(h) : j < k
             /\ unhandled[h] = <<>>
             /\ \A j \in DOMAIN calls[h] : j > k => calls[h][j].op = "Ping"

\* a batch of an upsert, a delete that failed with the backend alive, and a
\* second upsert: Index was called with the two upserts
C33_Witness ==
    \E h \in Handlers :
       /\ Returned(h)
       /\ Len(data[h]) = 3
       /\ DeleteFailedPing(h, 2, TRUE)
       /\ calls[h][3] = Call("Index", 0, <<1, 3>>, TRUE)
       /\ Len(calls[h]) = 3

\* ------------------------------------------- start-up order and the callback

\* holder.set has completed: the backend is in the holder and set has returned
SetDone == indexer # Nil /\ wop = "none" /\ mutexW = "free"

\* C34: the queue was last asked to Pause exactly when the backend's most
\* recent notification was 'unavailable' and to Resume exactly when it was
\* 'available'; every notification asks the queue accordingly; and the
\* callback is installed only once holder.set has completed, and only then
\* does a notification reach the queue.
C34_PausedFollowsAvailability ==
    /\ [](asked = "Pause" <=> notice = "unavailable")
    /\ [](asked = "Resume" <=> notice = "available")
    /\ [][\A available \in BOOLEAN :
             Notify(available) =>
                asked' = IF available THEN "Resume" ELSE "Pause"]_vars
    /\ [][callback' # callback => SetDone /\ callback' = "installed"]_vars
    /\ [](callback = "none" => notice = "none" /\ asked = "none")

\* the backend was last reported available and the queue was last asked to
\* resume, the process running with its consumer started
C34_Witness ==
    /\ Running
    /\ callback = "installed"
    /\ consumer = "started"
    /\ notice = "available"
    /\ asked = "Resume"

\* C35: with a backend type that is none of bleve, elasticsearch and db no
\* handler is registered (the queue is the dummy queue), set is never called,
\* the consumer and the populator are never started and the callback is never
\* installed; the goroutine calls cancel and then log.Fatal, which ends the
\* process with the holder cancelled.
C35_UnknownTypeCancelsAndExits ==
    /\ [](issueType = "other" =>
             /\ ~HandlerRegistered
             /\ indexer = Nil /\ wop # "set"
             /\ consumer = "no" /\ callback = "none" /\ populator = "none"
             /\ initExist = "unknown"
             /\ ~Running => (exitCause = "unknown_type" /\ cancelled))
    /\ (issueType = "other") ~> (exitCause = "unknown_type")

\* the process has ended: unknown type, holder cancelled, nothing started
C35_Witness ==
    /\ issueType = "other"
    /\ exitCause = "unknown_type"
    /\ cancelled /\ indexer = Nil
    /\ consumer = "no" /\ callback = "none" /\ populator = "none"

\* C36: the queue consumer and the populator are started only after
\* holder.set has completed, the populator after the consumer, and the
\* completion signal is sent only after the consumer was started; so once the
\* consumer is started get() has nothing to wait for, and no thread begins to
\* wait in it.
C36_StartupOrder ==
    /\ [][consumer' # consumer => SetDone /\ consumer' = "started"]_vars
    /\ [][populator' # populator => SetDone /\ consumer = "started"]_vars
    /\ [][(ipc # "done" /\ ipc' = "done") => consumer = "started"]_vars
    /\ [](consumer = "started" => ~NeedsWait(indexer, cancelled))
    /\ [][consumer = "started" => condWait' \subseteq condWait]_vars

\* the goroutine is done, consumer and populator started, and the handler,
\* invoked meanwhile, has got the backend from the holder without waiting
C36_Witness ==
    /\ ipc = "done"
    /\ consumer = "started"
    /\ populator = "spawned"
    /\ pc[Worker] = "got"
    /\ got[Worker] = "bleve"
    /\ ~waited[Worker]

\* ---------------------------------------------------------------------------
\* the query of a page answers with an error (lines 299-302)
QueryFails == ppc = "fetch" /\ ppc' = "check_page"

\* populateIssueIndexer has returned (lines 288-290, 303-306, 309-312)
PopulatorReturned == populator = "returned"

\* C37: over an unchanging repository table and without a shutdown,
\* populateIssueIndexer eventually returns, whatever the page queries answer
C37_PopulatorReturns == <>PopulatorReturned

\* what does hold: populateIssueIndexer returns once the page queries stop failing
ReturnsOnceQueriesSucceed == <>[][~QueryFails]_vars => <>PopulatorReturned

\* ---------------------------------------------------------------------------
\* the worker has never been handed a batch
NeverDelivered ==
    /\ pc[Worker] = "idle"
    /\ data[Worker] = <<>>
    /\ calls[Worker] = <<>>

\* C38: with IssueType db no handler is registered: what the producers push
\* stays in the dummy queue and no Index or Delete call is made for it, the
\* populator is never started, and the holder gets ready (the goroutine sets
\* the db indexer) without any call of Init
C38_DbBypassesQueueHandler ==
    /\ [](issueType = "db" =>
            /\ ~HandlerRegistered
            /\ NeverDelivered
            /\ index = EmptyIndex
            /\ ~populate
            /\ populator = "none"
            /\ initExist = "unknown"
            /\ indexer \in {Nil, "db"}
            /\ (ipc = "done" => indexer = "db" /\ ~cancelled))
    /\ [][(issueType = "db") =>
            \/ queue' = queue
            \/ \E rec \in Records : queue' = Append(queue, rec)]_vars

C38_Witness ==
    /\ issueType = "db"
    /\ ipc = "done"
    /\ indexer = "db"
    /\ Len(queue) = MaxCalls
    /\ \E k \in DOMAIN queue : queue[k].IsDelete

\* ---------------------------------------------------------------------------
\* the first n elements of a sequence
FirstN(seq, n) == [k \in 1..n |-> seq[k]]

\* C39: SearchIssuesByKeyword asks the backend for 50 hits from offset 0: it
\* returns the ids of the 50 best-ranked matches, or of all when they are
\* fewer, so at most 50 ids however many documents match; the total of the
\* matches, which the backend answers, is not in what the caller gets
C39_AtMostFiftyFromTheTop ==
    (SearchReturned(Searcher) /\ ret[Searcher].asked /\ ~ret[Searcher].err) =>
       LET ids == ret[Searcher].ids
           total == ret[Searcher].res.total
       IN /\ Len(ids) <= 50
          /\ Len(ids) = IF total < 50 THEN total ELSE 50
          /\ \E repoIDs \in SearchScopes, kw \in SearchKeywords :
                LET asc == Ascending(Matching(index, kw, repoIDs))
                    n == Len(asc)
                IN /\ total = n
                   /\ \/ ids = FirstN(asc, Len(ids))
                      \/ ids = FirstN([k \in 1..n |-> asc[n + 1 - k]], Len(ids))
          /\ DOMAIN SearchReturn(ret[Searcher].res) = {"err", "ids"}

C39_Witness ==
    /\ SearchReturned(Searcher)
    /\ ~ret[Searcher].err
    /\ Len(ret[Searcher].ids) = 50
    /\ ret[Searcher].res.total = 50 + MaxExtra
    /\ ret[Searcher].ids[1] = 50 + MaxExtra
====
